---- MODULE Spec2Model ----
(***************************************************************************)
(* State-machine model of the request handlers of the music-sharing app:   *)
(* the comments routes (src/app/api/comments/route.ts and the variant in   *)
(* src/app/_privy/coop/route.ts), the crypto-tip route, the library route  *)
(* and the user route, over the shared datastore tables, and the submit    *)
(* handler of the new-project page (src/components/NewProjectPage.tsx).    *)
(*                                                                         *)
(* Every handler is cut at its awaits on the datastore: one action per     *)
(* datastore round-trip, with the local code that follows it up to the     *)
(* next await (or the response) in the same action.                        *)
(***************************************************************************)
EXTENDS Integers, Sequences, FiniteSets, TLC

VARIABLES
    users,          \* table users: set of rows
    projects,       \* table projects: set of rows
    comments,       \* table comments: set of rows
    tips,           \* table tips: set of rows
    notifications,  \* table notifications: set of rows
    user_projects,  \* table user_projects (library entries): set of rows
    project_metrics, \* table project_metrics: set of rows
    nextId,         \* number of primary keys the datastore has generated
    endpoint,       \* the route family the request workers are serving
    pc,             \* pc[w]: where worker w stands in its handler
    req,            \* req[w]: the request worker w is handling
    loc,            \* loc[w]: the handler's local variables
    resp,           \* resp[w]: the response worker w returned last
    form            \* the new-project page: its React state and what its
                    \* submissions have created

vars == <<users, projects, comments, tips, notifications, user_projects,
          project_metrics, nextId, endpoint, pc, req, loc, resp, form>>

-----------------------------------------------------------------------------
(* Bounds of the model *)

\* Number of request workers that run concurrently in the tip, library and
\* user families.
NumWorkers == 2

\* Number of comment rows the datastore ever creates.
MaxComments == 1

\* Number of tip rows the datastore ever creates.
MaxTips == 2

\* Number of library entries the datastore ever creates.
MaxEntries == 2

\* Number of increments the metrics route ever makes.
MaxIncrements == 2

\* Number of tracks in the list of the new-project form.
MaxTracks == 2

\* Number of POST /api/projects requests the new-project form ever sends.
MaxPosts == 2

Workers == 1 .. NumWorkers

-----------------------------------------------------------------------------
(* Values *)

\* SQL NULL / JS null in a column or parameter of string type.
NULL == "null"

\* JS null, undefined and NaN for values of other types, and "no row".
Null == [t |-> "null"]
Undefined == [t |-> "undefined"]
NaN == [t |-> "nan"]

\* A JS string, as the sequence of its characters.
Str(s) == [t |-> "str", v |-> s]

\* A JS number, counted in halves (h = 3 is 1.5), so that Math.floor acts.
Num(h) == [t |-> "num", h |-> h]

\* An SQL INTEGER.
SqlInt(n) == [t |-> "int", v |-> n]

\* External identities the identity provider knows, and the credentials a
\* request can carry: none, a token the provider rejects, or the token of
\* an identity.
PrivyIds == {"d1", "d2", "d3"}
Credentials == {"none", "bad"} \cup PrivyIds

\* Identifiers that have the UUID format: the rows' ids and one unused id
\* per table.  "zz" stands for a string that is not a UUID.
ProjectUUIDs == {"p1", "pX"}
TrackUUIDs == {"t1", "tX"}
CommentUUIDs == {"c" \o ToString(n) : n \in 1 .. (MaxComments + 1)} \cup {"cX"}
UserUUIDs == {"u" \o ToString(n) : n \in 1 .. 4} \cup {"uX"}
UUIDs == ProjectUUIDs \cup TrackUUIDs \cup CommentUUIDs \cup UserUUIDs

\* Transaction hashes that have the 0x + 64 hex digits format.
TxHashes == {"0xh1", "0xh2"}

\* Table tracks: fixed, a track row names its parent project.
tracks == {[id |-> "t1", project_id |-> "p1"]}

-----------------------------------------------------------------------------
(* src/unnamed/part_004: validation utilities *)

isValidUUID(str) == str \in UUIDs

isValidTxHash(str) == str \in TxHashes

Whitespace == {" "}

RECURSIVE TrimStart(_)
TrimStart(s) ==
    IF s # <<>> /\ Head(s) \in Whitespace THEN TrimStart(Tail(s)) ELSE s

RECURSIVE TrimEnd(_)
TrimEnd(s) ==
    IF s # <<>> /\ s[Len(s)] \in Whitespace
    THEN TrimEnd(SubSeq(s, 1, Len(s) - 1))
    ELSE s

\* String.prototype.trim
Trim(s) == TrimEnd(TrimStart(s))

\* String.prototype.slice(0, n)
Slice(s, n) == SubSeq(s, 1, IF Len(s) < n THEN Len(s) ELSE n)

\* JS truthiness of a value that is a string, null or undefined.
Falsy(x) == x.t \in {"null", "undefined"} \/ (x.t = "str" /\ x.v = <<>>)

sanitizeText_TrimOnly(str, maxLength) ==
    IF Falsy(str) THEN Null ELSE Str(Trim(str.v))

sanitizeText_NoTrim(str, maxLength) ==
    IF Falsy(str) THEN Null ELSE Str(Slice(str.v, maxLength))

sanitizeText(str, maxLength) ==
    IF Falsy(str) THEN Null ELSE Str(Slice(Trim(str.v), maxLength))

\* Maximum comment length passed to sanitizeText by the comment handlers.
CommentMaxLength == 2000

-----------------------------------------------------------------------------
(* Datastore queries *)

\* PostgREST .single(): the row when exactly one row matches, else no data.
Single(rows) ==
    IF Cardinality(rows) = 1 THEN CHOOSE r \in rows : TRUE ELSE Null

\* lib/auth verifyPrivyToken: the identity provider's check of the header.
verifyPrivyToken(cred) ==
    IF cred \in PrivyIds
    THEN [success |-> TRUE, privyId |-> cred]
    ELSE [success |-> FALSE, privyId |-> NULL]

\* lib/auth getUserByPrivyId: the users row of an external identity.
getUserByPrivyId(privyId) == Single({u \in users : u.privy_id = privyId})

\* from('projects').select(...).eq('id', id).single()
ProjectById(id) == Single({p \in projects : p.id = id})

\* from('comments').select('*').eq('id', id).single()
CommentById(id) == Single({c \in comments : c.id = id})

\* getTrackProject: the parent project of a track through the join, or null.
getTrackProject(trackId) ==
    LET track == Single({t \in tracks : t.id = trackId})
    IN  IF track = Null THEN Null ELSE ProjectById(track.project_id)

\* order('created_at', { ascending: false })
RECURSIVE NewestFirst(_)
NewestFirst(rows) ==
    IF rows = {} THEN <<>>
    ELSE LET m == CHOOSE x \in rows : \A y \in rows : y.created_at <= x.created_at
         IN  <<m>> \o NewestFirst(rows \ {m})

\* Constraints of table comments (comments_target_check,
\* comments_track_timestamp_check, the foreign keys, content NOT NULL).
CommentConstraintsOk(row) ==
    /\ \/ (row.project_id # NULL /\ row.track_id = NULL)
       \/ (row.project_id = NULL /\ row.track_id # NULL)
    /\ \/ (row.track_id = NULL /\ row.timestamp_seconds = Null)
       \/ (/\ row.track_id # NULL
           /\ row.timestamp_seconds # Null
           /\ row.timestamp_seconds.v >= 0)
    /\ \E u \in users : u.id = row.user_id
    /\ row.project_id # NULL => \E p \in projects : p.id = row.project_id
    /\ row.track_id # NULL => \E t \in tracks : t.id = row.track_id

-----------------------------------------------------------------------------
(* Requests, locals and responses *)

NoReq ==
    [method |-> "none", route |-> "none", cred |-> "none",
     project_id |-> NULL, track_id |-> NULL, id |-> NULL,
     content |-> Null, timestamp_seconds |-> Undefined]

NoLoc ==
    [user |-> Null, creatorId |-> NULL, existing |-> Null, list |-> <<>>,
     payload |-> Null, data |-> Null]

NoResp == [status |-> 0, kind |-> "none", data |-> Null]

Error(status, message) == [status |-> status, kind |-> "error", data |-> message]

\* Values a request can carry in its fields.
\* The target: project_id and track_id.
TargetInputs ==
    {<<NULL, NULL>>, <<"p1", NULL>>, <<"pX", NULL>>, <<"zz", NULL>>,
     <<NULL, "t1">>, <<NULL, "tX">>, <<NULL, "zz">>, <<"p1", "t1">>}
CommentIdInputs ==
    {"c" \o ToString(n) : n \in 1 .. MaxComments} \cup {NULL, "cX", "zz"}
PostContentInputs == {Null, Str(<<" ">>), Str(<<" ", "a">>)}
PatchContentInputs == {Null, Str(<<" ">>), Str(<<"a">>), Str(<<"b", " ">>)}
TimestampInputs == {Undefined, Null, Num(0 - 1), Num(1)}
CommentRoutes == {"api", "coop"}

\* The runs in which the comment handlers serve requests: beside the
\* owner's sharing switch, beside the deletion of the project, and with
\* bodies whose content is over-long.
CommentEndpoints == {"comments", "race", "content"}

\* The requests as they arrive: the method, the route, the authorization
\* header and the URL's search parameters.
GetRequests ==
    {[NoReq EXCEPT !.method = "GET", !.route = r, !.cred = c,
                   !.project_id = t[1], !.track_id = t[2]] :
        r \in CommentRoutes, c \in Credentials, t \in TargetInputs}

WriteRequests ==
    {[NoReq EXCEPT !.method = m, !.route = r, !.cred = c] :
        m \in {"POST", "PATCH"}, r \in CommentRoutes, c \in Credentials}
    \cup
    {[NoReq EXCEPT !.method = "DELETE", !.route = r, !.cred = c, !.id = i] :
        r \in CommentRoutes, c \in Credentials, i \in CommentIdInputs}

\* The JSON bodies request.json() can yield, by method.  A body carries a
\* timestamp where the handler can read it or a constraint can see it.
PostBodies ==
    {b \in [project_id : {t[1] : t \in TargetInputs},
            track_id : {t[2] : t \in TargetInputs},
            content : PostContentInputs,
            timestamp_seconds : TimestampInputs] :
        /\ <<b.project_id, b.track_id>> \in TargetInputs
        /\ b.timestamp_seconds # Undefined =>
              /\ b.content = Str(<<" ", "a">>)
              /\ \/ b.track_id = "t1"
                 \/ b.project_id = "p1" /\ b.timestamp_seconds = Num(1)}

PatchBodies == [id : CommentIdInputs, content : PatchContentInputs]

\* The request r with the fields of its parsed body.
WithBody(r, body) ==
    CASE r.method = "POST" ->
           [r EXCEPT !.project_id = body.project_id, !.track_id = body.track_id,
                     !.content = body.content,
                     !.timestamp_seconds = body.timestamp_seconds]
      [] r.method = "PATCH" ->
           [r EXCEPT !.id = body.id, !.content = body.content]
      [] OTHER -> r

Bodies(r) ==
    CASE r.method = "POST" -> PostBodies
      [] r.method = "PATCH" -> PatchBodies
      [] OTHER -> {Null}

\* A content one character longer than the handlers' maximum, and the
\* bodies that carry it.
LongContent == Str([i \in 1 .. CommentMaxLength + 1 |-> "a"])
LongBodies(r) ==
    CASE r.method = "POST" ->
           {[project_id |-> "p1", track_id |-> NULL, content |-> LongContent,
             timestamp_seconds |-> Undefined]}
      [] r.method = "PATCH" ->
           {[id |-> i, content |-> LongContent] : i \in CommentIdInputs}
      [] OTHER -> {}

tables ==
    <<users, projects, comments, tips, notifications, user_projects,
      project_metrics, nextId>>

\* The outcome of a step: the next step with the locals carried there, or
\* the response returned.
Continue(label, locals) == [next |-> label, loc |-> locals, resp |-> NoResp]
Return(locals, response) == [next |-> "done", loc |-> locals, resp |-> response]

\* Worker w ends its step with outcome o.
Finish(w, o) ==
    /\ pc' = [pc EXCEPT ![w] = o.next]
    /\ loc' = [loc EXCEPT ![w] = o.loc]
    /\ resp' = [resp EXCEPT ![w] = o.resp]

\* Worker w is free and takes up request r.
Accept(w, r) ==
    /\ pc[w] = "idle"
    /\ req' = [req EXCEPT ![w] = r]

\* Workers that serve the comment routes.
CommentWorkers == {w \in Workers : w = 1}

-----------------------------------------------------------------------------
(* Comments: GET (src/app/api/comments/route.ts 41-136 and                  *)
(* src/app/_privy/coop/route.ts 92-165)                                     *)

getCurrentUserFromRequest(cred) ==
    LET authResult == verifyPrivyToken(cred)
    IN  IF ~authResult.success \/ authResult.privyId = NULL
        THEN Null
        ELSE getUserByPrivyId(authResult.privyId)

\* The target check before the first await.
GetShapeOutcome(r) ==
    IF r.route = "api"
    THEN IF \/ (r.project_id # NULL /\ r.track_id # NULL)
            \/ (r.project_id = NULL /\ r.track_id = NULL)
         THEN Return(NoLoc, Error(400, "Provide either project_id or track_id"))
         ELSE Continue("get_user", NoLoc)
    ELSE IF r.project_id = NULL
         THEN IF r.track_id # NULL
              THEN Return(NoLoc, Error(400, "Track comments are no longer supported"))
              ELSE Return(NoLoc, Error(400, "project_id is required"))
         ELSE Continue("get_user", NoLoc)

\* The target is the project (else the track) of the request.
ProjectTarget(r) == r.route = "coop" \/ r.project_id # NULL

\* currentUser, then the format check of the target id.
GetUserOutcome(r, l) ==
    LET currentUser == getCurrentUserFromRequest(r.cred)
        locals == [l EXCEPT !.user = currentUser]
    IN  IF ProjectTarget(r)
        THEN IF ~isValidUUID(r.project_id)
             THEN Return(locals, Error(400, "Invalid project_id"))
             ELSE Continue("get_target", locals)
        ELSE IF ~isValidUUID(r.track_id)
             THEN Return(locals, Error(400, "Invalid track_id"))
             ELSE Continue("get_target", locals)

\* The project (or the track's project) and its visibility.
GetTargetOutcome_NoGate(r, l) ==
    LET project == IF ProjectTarget(r) THEN ProjectById(r.project_id)
                   ELSE getTrackProject(r.track_id)
    IN  IF project = Null
        THEN Return(l, Error(404, "Project not found"))
        ELSE Continue("get_list", [l EXCEPT !.creatorId = project.creator_id])

GetTargetOutcome(r, l) ==
    LET project == IF ProjectTarget(r) THEN ProjectById(r.project_id)
                   ELSE getTrackProject(r.track_id)
    IN  IF project = Null \/ project.sharing_enabled = "false"
        THEN Return(l, Error(404, IF ProjectTarget(r) THEN "Project not found"
                                  ELSE "Track not found"))
        ELSE Continue("get_list", [l EXCEPT !.creatorId = project.creator_id])

\* The comments of the target, newest first.
GetListOutcome(r, l) ==
    LET rows == IF ProjectTarget(r)
                THEN {c \in comments : c.project_id = r.project_id}
                ELSE {c \in comments : c.track_id = r.track_id}
    IN  IF rows = {}
        THEN Return(l, [status |-> 200, kind |-> "comments", data |-> <<>>])
        ELSE Continue("get_users", [l EXCEPT !.list = NewestFirst(rows)])

\* a || b || 'Unknown' on two nullable strings.
AuthorName(author) ==
    IF author = Null THEN Str(<<"U", "n", "k", "n", "o", "w", "n">>)
    ELSE IF ~Falsy(author.username) THEN author.username
    ELSE IF ~Falsy(author.email) THEN author.email
    ELSE Str(<<"U", "n", "k", "n", "o", "w", "n">>)

\* One entry of enhancedComments.
EnhanceComment_AuthorDeletesOnly(comment, l) ==
    LET author == Single({u \in users : u.id = comment.user_id})
        isOwner == l.user # Null /\ l.user.id = comment.user_id
    IN  [comment |-> comment, author_name |-> AuthorName(author),
         can_edit |-> isOwner, can_delete |-> isOwner]

EnhanceComment_OwnerEdits(comment, l) ==
    LET author == Single({u \in users : u.id = comment.user_id})
        isOwner == l.user # Null /\ l.user.id = comment.user_id
        isCreator == l.user # Null /\ l.creatorId # NULL /\ l.user.id = l.creatorId
    IN  [comment |-> comment, author_name |-> AuthorName(author),
         can_edit |-> isOwner \/ isCreator, can_delete |-> isOwner \/ isCreator]

EnhanceComment(comment, l) ==
    LET author == Single({u \in users : u.id = comment.user_id})
        isOwner == l.user # Null /\ l.user.id = comment.user_id
        isCreator == l.user # Null /\ l.creatorId # NULL /\ l.user.id = l.creatorId
    IN  [comment |-> comment, author_name |-> AuthorName(author),
         can_edit |-> isOwner, can_delete |-> isOwner \/ isCreator]

\* The authors' rows and the annotated list.
GetUsersOutcome(r, l) ==
    Return(l, [status |-> 200, kind |-> "comments",
               data |-> [i \in DOMAIN l.list |-> EnhanceComment(l.list[i], l)]])

GetBegin(w) ==
    /\ endpoint \in CommentEndpoints
    /\ w \in CommentWorkers
    /\ \E r \in GetRequests : Accept(w, r) /\ Finish(w, GetShapeOutcome(r))
    /\ UNCHANGED <<tables, endpoint, form>>

GetUser(w) ==
    /\ pc[w] = "get_user"
    /\ Finish(w, GetUserOutcome(req[w], loc[w]))
    /\ UNCHANGED <<tables, endpoint, form, req>>

GetTarget(w) ==
    /\ pc[w] = "get_target"
    /\ Finish(w, GetTargetOutcome(req[w], loc[w]))
    /\ UNCHANGED <<tables, endpoint, form, req>>

GetList(w) ==
    /\ pc[w] = "get_list"
    /\ Finish(w, GetListOutcome(req[w], loc[w]))
    /\ UNCHANGED <<tables, endpoint, form, req>>

GetUsers(w) ==
    /\ pc[w] = "get_users"
    /\ Finish(w, GetUsersOutcome(req[w], loc[w]))
    /\ UNCHANGED <<tables, endpoint, form, req>>

-----------------------------------------------------------------------------
(* Comments: the local validation that follows the identity resolution of   *)
(* POST, PATCH and DELETE                                                   *)

PostValidateApi_NoTargetCheck(r, l) ==
    LET content == sanitizeText(r.content, CommentMaxLength)
    IN  IF Falsy(content)
        THEN Return(l, Error(400, "Comment content is required"))
        ELSE IF r.project_id # NULL /\ ~isValidUUID(r.project_id)
        THEN Return(l, Error(400, "Invalid project_id"))
        ELSE IF r.project_id = NULL /\ ~isValidUUID(r.track_id)
        THEN Return(l, Error(400, "Invalid track_id"))
        ELSE Continue("post_target",
                 [l EXCEPT !.payload = [user_id |-> l.user.id, content |-> content.v]])

\* POST, src/app/api/comments/route.ts 150-170 and 185-188.
PostValidateApi(r, l) ==
    LET content == sanitizeText(r.content, CommentMaxLength)
    IN  IF \/ (r.project_id # NULL /\ r.track_id # NULL)
           \/ (r.project_id = NULL /\ r.track_id = NULL)
        THEN Return(l, Error(400, "Provide either project_id or track_id"))
        ELSE IF Falsy(content)
        THEN Return(l, Error(400, "Comment content is required"))
        ELSE IF r.project_id # NULL /\ ~isValidUUID(r.project_id)
        THEN Return(l, Error(400, "Invalid project_id"))
        ELSE IF r.project_id = NULL /\ ~isValidUUID(r.track_id)
        THEN Return(l, Error(400, "Invalid track_id"))
        ELSE Continue("post_target",
                 [l EXCEPT !.payload = [user_id |-> l.user.id, content |-> content.v]])

\* POST, src/app/_privy/coop/route.ts 179-197.
PostValidateCoop(r, l) ==
    LET content == sanitizeText(r.content, CommentMaxLength)
    IN  IF r.track_id # NULL
        THEN Return(l, Error(400, "Track comments are no longer supported"))
        ELSE IF r.project_id = NULL
        THEN Return(l, Error(400, "project_id is required"))
        ELSE IF Falsy(content)
        THEN Return(l, Error(400, "Comment content is required"))
        ELSE IF ~isValidUUID(r.project_id)
        THEN Return(l, Error(400, "Invalid project_id"))
        ELSE Continue("post_target",
                 [l EXCEPT !.payload = [user_id |-> l.user.id, content |-> content.v]])

\* PATCH, lines 232-242 (coop 244-254).
PatchValidate(r, l) ==
    LET content == sanitizeText(r.content, CommentMaxLength)
    IN  IF r.id = NULL \/ ~isValidUUID(r.id)
        THEN Return(l, Error(400, "Valid comment id is required"))
        ELSE IF Falsy(content)
        THEN Return(l, Error(400, "Comment content is required"))
        ELSE Continue("patch_load", [l EXCEPT !.payload = [content |-> content.v]])

\* DELETE, lines 286-291 (coop 298-303).
DeleteValidate(r, l) ==
    IF r.id = NULL \/ ~isValidUUID(r.id)
    THEN Return(l, Error(400, "Valid comment id is required"))
    ELSE Continue("del_load", l)

\* The handler's code from the resolved user to its next await.
AfterAuth(r, l) ==
    CASE r.method = "POST" /\ r.route = "api" -> PostValidateApi(r, l)
      [] r.method = "POST" /\ r.route = "coop" -> PostValidateCoop(r, l)
      [] r.method = "PATCH" -> PatchValidate(r, l)
      [] r.method = "DELETE" -> DeleteValidate(r, l)

-----------------------------------------------------------------------------
(* Comments: identity resolution of POST, PATCH and DELETE                  *)
(* (route.ts 140-148, 222-230, 276-284; coop 47-66, 169-177, ...)           *)

AuthOutcome_NoCheck(r, l) ==
    LET authResult == verifyPrivyToken(r.cred)
        user == IF authResult.privyId = NULL
                THEN Single({u \in users : u.id = "u1"})
                ELSE getUserByPrivyId(authResult.privyId)
    IN  IF user # Null THEN Continue("parse", [l EXCEPT !.user = user])
        ELSE Return(l, Error(404, "User not found"))

AuthOutcome(r, l) ==
    LET authResult == verifyPrivyToken(r.cred)
    IN  IF ~authResult.success \/ authResult.privyId = NULL
        THEN Return(l, Error(401, "Unauthorized"))
        ELSE LET user == getUserByPrivyId(authResult.privyId)
             IN  IF user # Null THEN Continue("parse", [l EXCEPT !.user = user])
                 ELSE IF r.route = "coop"
                 THEN Continue("auth_create", l)
                 ELSE Return(l, Error(404, "User not found"))

\* Table users: privy_id is unique.
UsersInsertOk_NotUnique(row) == TRUE

UsersInsertOk(row) == \A u \in users : u.privy_id # row.privy_id

NewUserRow(privyId, email) ==
    [id |-> "u" \o ToString(nextId.users + 1), privy_id |-> privyId,
     username |-> Null, email |-> email, bio |-> Null, website |-> Null,
     wallet_address |-> Null, stripe_account_id |-> Null]

WriteBegin(w) ==
    /\ endpoint \in CommentEndpoints
    /\ w \in CommentWorkers
    /\ \E r \in WriteRequests :
          /\ r.method = "POST" => nextId.comments < MaxComments
          /\ Accept(w, r)
          /\ Finish(w, Continue("auth", NoLoc))
    /\ UNCHANGED <<tables, endpoint, form>>

Auth(w) ==
    /\ pc[w] = "auth"
    /\ Finish(w, AuthOutcome(req[w], loc[w]))
    /\ UNCHANGED <<tables, endpoint, form, req>>

\* getOrCreateUserByPrivyId, the insert (coop 51-57).
AuthCreate(w) ==
    /\ pc[w] = "auth_create"
    /\ LET row == NewUserRow(req[w].cred, Null)
       IN  IF UsersInsertOk(row)
           THEN /\ users' = users \cup {row}
                /\ nextId' = [nextId EXCEPT !.users = @ + 1]
                /\ Finish(w, Continue("parse", [loc[w] EXCEPT !.user = row]))
           ELSE /\ UNCHANGED <<users, nextId>>
                /\ Finish(w, Continue("auth_retry", loc[w]))
    /\ UNCHANGED <<projects, comments, tips, notifications, user_projects,
                   project_metrics, endpoint, form, req>>

\* getOrCreateUserByPrivyId, the re-fetch (coop 59-65).
AuthRetry(w) ==
    /\ pc[w] = "auth_retry"
    /\ LET retryUser == getUserByPrivyId(req[w].cred)
       IN  Finish(w, IF retryUser # Null
                     THEN Continue("parse", [loc[w] EXCEPT !.user = retryUser])
                     ELSE Return(loc[w], Error(404, "User not found")))
    /\ UNCHANGED <<tables, endpoint, form, req>>

\* await request.json() (the search parameters for DELETE) and the checks
\* of the parsed fields.
ParseBody(w) ==
    /\ pc[w] = "parse"
    /\ req[w].route \in CommentRoutes
    /\ \E body \in Bodies(req[w]) \cup
                    (IF endpoint = "content" THEN LongBodies(req[w]) ELSE {}) :
          LET r == WithBody(req[w], body)
          IN  /\ req' = [req EXCEPT ![w] = r]
              /\ Finish(w, AfterAuth(r, loc[w]))
    /\ UNCHANGED <<tables, endpoint, form>>

\* The response has gone out: the worker is free again.
Settle(w) ==
    /\ pc[w] = "done"
    /\ pc' = [pc EXCEPT ![w] = "idle"]
    /\ req' = [req EXCEPT ![w] = NoReq]
    /\ loc' = [loc EXCEPT ![w] = NoLoc]
    /\ resp' = [resp EXCEPT ![w] = NoResp]
    /\ UNCHANGED <<tables, endpoint, form>>

-----------------------------------------------------------------------------
(* Comments: POST (route.ts 167-213, coop 199-225)                          *)

\* Number(x)
ToNumber(x) ==
    CASE x.t = "num" -> x
      [] x.t = "null" -> Num(0)
      [] OTHER -> NaN

\* Number.isFinite(x)
IsFinite(x) == x.t = "num"

\* Math.floor(x) of a finite number, as an integer.
Floor(x) == x.h \div 2

PostTargetOutcome_KeepsTimestamp(r, l) ==
    LET parsedTimestamp == ToNumber(r.timestamp_seconds)
        project == IF r.project_id # NULL THEN ProjectById(r.project_id)
                   ELSE getTrackProject(r.track_id)
    IN  IF project = Null \/ project.sharing_enabled = "false"
        THEN Return(l, Error(404, "Project not found"))
        ELSE Continue("post_insert",
                 [l EXCEPT !.payload =
                     [user_id |-> l.payload.user_id,
                      content |-> l.payload.content,
                      project_id |-> r.project_id,
                      track_id |-> r.track_id,
                      timestamp_seconds |->
                          IF IsFinite(parsedTimestamp)
                          THEN SqlInt(Floor(parsedTimestamp)) ELSE Null]])

PostTargetOutcome(r, l) ==
    IF r.project_id # NULL
    THEN LET project == ProjectById(r.project_id)
         IN  IF project = Null \/ project.sharing_enabled = "false"
             THEN Return(l, Error(404, "Project not found"))
             ELSE Continue("post_insert",
                      [l EXCEPT !.payload =
                          [user_id |-> l.payload.user_id,
                           content |-> l.payload.content,
                           project_id |-> r.project_id,
                           track_id |-> NULL,
                           timestamp_seconds |-> Null]])
    ELSE LET trackProject == getTrackProject(r.track_id)
             parsedTimestamp == ToNumber(r.timestamp_seconds)
         IN  IF trackProject = Null \/ trackProject.sharing_enabled = "false"
             THEN Return(l, Error(404, "Track not found"))
             ELSE IF ~IsFinite(parsedTimestamp) \/ parsedTimestamp.h < 0
             THEN Return(l, Error(400, "Valid non-negative timestamp_seconds is required for track comments"))
             ELSE Continue("post_insert",
                      [l EXCEPT !.payload =
                          [user_id |-> l.payload.user_id,
                           content |-> l.payload.content,
                           project_id |-> NULL,
                           track_id |-> r.track_id,
                           timestamp_seconds |-> SqlInt(Floor(parsedTimestamp))]])

\* The row the datastore makes of an insert payload.
NewCommentRow(payload) ==
    [id |-> "c" \o ToString(nextId.comments + 1),
     created_at |-> nextId.comments + 1,
     user_id |-> payload.user_id,
     project_id |-> payload.project_id,
     track_id |-> payload.track_id,
     content |-> payload.content,
     timestamp_seconds |-> payload.timestamp_seconds]

PostTarget(w) ==
    /\ pc[w] = "post_target"
    /\ Finish(w, PostTargetOutcome(req[w], loc[w]))
    /\ UNCHANGED <<tables, endpoint, form, req>>

PostInsert(w) ==
    /\ pc[w] = "post_insert"
    /\ LET row == NewCommentRow(loc[w].payload)
       IN  IF CommentConstraintsOk(row)
           THEN /\ comments' = comments \cup {row}
                /\ nextId' = [nextId EXCEPT !.comments = @ + 1]
                /\ Finish(w, Return(loc[w], [status |-> 201, kind |-> "comment",
                                             data |-> row]))
           ELSE /\ UNCHANGED <<comments, nextId>>
                /\ Finish(w, Return(loc[w], Error(500, "Internal server error")))
    /\ UNCHANGED <<users, projects, tips, notifications, user_projects,
                   project_metrics, endpoint, form, req>>

-----------------------------------------------------------------------------
(* Comments: PATCH (route.ts 244-267, coop 256-279)                         *)

PatchLoadOutcome_OwnerToo(r, l) ==
    LET existing == CommentById(r.id)
        project == IF existing = Null THEN Null ELSE ProjectById(existing.project_id)
    IN  IF existing = Null
        THEN Return(l, Error(404, "Comment not found"))
        ELSE IF existing.user_id # l.user.id
                /\ ~(project # Null /\ project.creator_id = l.user.id)
        THEN Return(l, Error(403, "Unauthorized"))
        ELSE Continue("patch_update", [l EXCEPT !.existing = existing])

PatchLoadOutcome(r, l) ==
    LET existing == CommentById(r.id)
    IN  IF existing = Null
        THEN Return(l, Error(404, "Comment not found"))
        ELSE IF existing.user_id # l.user.id
        THEN Return(l, Error(403, "Unauthorized"))
        ELSE Continue("patch_update", [l EXCEPT !.existing = existing])

PatchLoad(w) ==
    /\ pc[w] = "patch_load"
    /\ Finish(w, PatchLoadOutcome(req[w], loc[w]))
    /\ UNCHANGED <<tables, endpoint, form, req>>

PatchUpdate_ResetsCreatedAt(w) ==
    /\ pc[w] = "patch_update"
    /\ LET old == CommentById(req[w].id)
           new == [old EXCEPT !.content = loc[w].payload.content,
                              !.created_at = 0]
       IN  /\ old # Null
           /\ comments' = (comments \ {old}) \cup {new}
           /\ Finish(w, Return(loc[w], [status |-> 200, kind |-> "comment",
                                        data |-> new]))
    /\ UNCHANGED <<users, projects, tips, notifications, user_projects,
                   project_metrics, nextId, endpoint, form, req>>

\* update({ content }).eq('id', id).select('*').single()
PatchUpdate(w) ==
    /\ pc[w] = "patch_update"
    /\ LET old == CommentById(req[w].id)
           new == [old EXCEPT !.content = loc[w].payload.content]
       IN  IF old # Null
           THEN /\ comments' = (comments \ {old}) \cup {new}
                /\ Finish(w, Return(loc[w], [status |-> 200, kind |-> "comment",
                                             data |-> new]))
           ELSE /\ UNCHANGED comments
                /\ Finish(w, Return(loc[w], Error(500, "Internal server error")))
    /\ UNCHANGED <<users, projects, tips, notifications, user_projects,
                   project_metrics, nextId, endpoint, form, req>>

-----------------------------------------------------------------------------
(* Comments: DELETE (route.ts 293-328, coop 305-340)                        *)

DeleteLoadOutcome(r, l) ==
    LET existing == CommentById(r.id)
    IN  IF existing = Null
        THEN Return(l, Error(404, "Comment not found"))
        ELSE Continue("del_owner", [l EXCEPT !.existing = existing])

\* creatorId of the comment's target: project?.creator_id || null
TargetCreatorId(existing) ==
    LET project == IF existing.project_id # NULL
                   THEN ProjectById(existing.project_id)
                   ELSE IF existing.track_id # NULL
                   THEN getTrackProject(existing.track_id)
                   ELSE Null
    IN  IF project = Null THEN NULL ELSE project.creator_id

DeleteOwnerOutcome_AuthorOnly(r, l) ==
    LET creatorId == TargetCreatorId(l.existing)
        canDelete == l.existing.user_id = l.user.id
    IN  IF ~canDelete
        THEN Return(l, Error(403, "Unauthorized"))
        ELSE Continue("del_delete", [l EXCEPT !.creatorId = creatorId])

DeleteOwnerOutcome_Anyone(r, l) ==
    Continue("del_delete", [l EXCEPT !.creatorId = TargetCreatorId(l.existing)])

DeleteOwnerOutcome(r, l) ==
    LET creatorId == TargetCreatorId(l.existing)
        canDelete == l.existing.user_id = l.user.id \/ creatorId = l.user.id
    IN  IF ~canDelete
        THEN Return(l, Error(403, "Unauthorized"))
        ELSE Continue("del_delete", [l EXCEPT !.creatorId = creatorId])

DeleteLoad(w) ==
    /\ pc[w] = "del_load"
    /\ Finish(w, DeleteLoadOutcome(req[w], loc[w]))
    /\ UNCHANGED <<tables, endpoint, form, req>>

DeleteOwner(w) ==
    /\ pc[w] = "del_owner"
    /\ Finish(w, DeleteOwnerOutcome(req[w], loc[w]))
    /\ UNCHANGED <<tables, endpoint, form, req>>

\* delete().eq('id', id)
DeleteRow(w) ==
    /\ pc[w] = "del_delete"
    /\ comments' = {c \in comments : c.id # req[w].id}
    /\ Finish(w, Return(loc[w], [status |-> 200, kind |-> "success", data |-> Null]))
    /\ UNCHANGED <<users, projects, tips, notifications, user_projects,
                   project_metrics, nextId, endpoint, form, req>>

-----------------------------------------------------------------------------
(* The owner of a project switches its sharing (a route outside this model) *)

SharingValues == {"true", "false", NULL}

SetSharing ==
    /\ endpoint = "comments"
    /\ \E p \in projects, v \in SharingValues :
          /\ v # p.sharing_enabled
          /\ projects' = (projects \ {p}) \cup {[p EXCEPT !.sharing_enabled = v]}
    /\ UNCHANGED <<users, comments, tips, notifications, user_projects,
                   project_metrics, nextId, endpoint, form, pc, req, loc, resp>>

-----------------------------------------------------------------------------
(* The comment routes *)

InitUsers ==
    {[id |-> "u1", privy_id |-> "d1", username |-> Str(<<"a", "l", "i">>),
      email |-> Null, bio |-> Null, website |-> Null, wallet_address |-> Null,
      stripe_account_id |-> Str(<<"a", "c", "c", "t">>)],
     [id |-> "u2", privy_id |-> "d2", username |-> Null,
      email |-> Str(<<"b", "@", "x">>), bio |-> Null, website |-> Null,
      wallet_address |-> Null, stripe_account_id |-> Null]}

InitTables ==
    /\ users = InitUsers
    /\ projects = {[id |-> "p1", creator_id |-> "u1", sharing_enabled |-> "true"]}
    /\ comments = {}
    /\ tips = {}
    /\ notifications = {}
    /\ user_projects = {}
    /\ project_metrics = {}
    /\ nextId = [users |-> 2, comments |-> 0, tips |-> 0, user_projects |-> 0,
                 notifications |-> 0]

\* The new-project page as it mounts: useState(false) for loading and
\* submitted (NewProjectPage.tsx 19-20), the same values in the render the
\* handlers close over, and nothing posted or created.
NoForm ==
    [loading |-> FALSE, submitted |-> FALSE,
     shown |-> [loading |-> FALSE, submitted |-> FALSE],
     posts |-> 0, projects |-> 0, tracks |-> {}]

InitWorkers ==
    /\ pc = [w \in Workers |-> "idle"]
    /\ req = [w \in Workers |-> NoReq]
    /\ loc = [w \in Workers |-> NoLoc]
    /\ resp = [w \in Workers |-> NoResp]
    /\ form = NoForm

InitComments == InitTables /\ InitWorkers /\ endpoint = "comments"

NextComments ==
    \/ \E w \in Workers : GetBegin(w)
    \/ \E w \in Workers : GetUser(w)
    \/ \E w \in Workers : GetTarget(w)
    \/ \E w \in Workers : GetList(w)
    \/ \E w \in Workers : GetUsers(w)
    \/ \E w \in Workers : WriteBegin(w)
    \/ \E w \in Workers : Auth(w)
    \/ \E w \in Workers : AuthCreate(w)
    \/ \E w \in Workers : ParseBody(w)
    \/ \E w \in Workers : PostTarget(w)
    \/ \E w \in Workers : PostInsert(w)
    \/ \E w \in Workers : PatchLoad(w)
    \/ \E w \in Workers : PatchUpdate(w)
    \/ \E w \in Workers : DeleteLoad(w)
    \/ \E w \in Workers : DeleteOwner(w)
    \/ \E w \in Workers : DeleteRow(w)
    \/ \E w \in Workers : Settle(w)
    \/ SetSharing

SpecComments == InitComments /\ [][NextComments]_vars

-----------------------------------------------------------------------------
(* The owner of a project deletes it (a route outside this model) while the *)
(* comment handlers run                                                     *)

\* The comments that hang under project p, directly or through a track.
CommentsUnder(p) ==
    {c \in comments :
        \/ c.project_id = p.id
        \/ \E t \in tracks : t.id = c.track_id /\ t.project_id = p.id}

\* The project row goes, and with it (ON DELETE CASCADE) its comments.
DeleteProject ==
    /\ endpoint = "race"
    /\ \E p \in projects :
          /\ projects' = projects \ {p}
          /\ comments' = comments \ CommentsUnder(p)
    /\ UNCHANGED <<users, tips, notifications, user_projects,
                   project_metrics, nextId, endpoint, form, pc, req, loc, resp>>

InitRace == InitTables /\ InitWorkers /\ endpoint = "race"

NextRace ==
    \/ \E w \in Workers : GetBegin(w)
    \/ \E w \in Workers : GetUser(w)
    \/ \E w \in Workers : GetTarget(w)
    \/ \E w \in Workers : GetList(w)
    \/ \E w \in Workers : GetUsers(w)
    \/ \E w \in Workers : WriteBegin(w)
    \/ \E w \in Workers : Auth(w)
    \/ \E w \in Workers : AuthCreate(w)
    \/ \E w \in Workers : ParseBody(w)
    \/ \E w \in Workers : PostTarget(w)
    \/ \E w \in Workers : PostInsert(w)
    \/ \E w \in Workers : PatchLoad(w)
    \/ \E w \in Workers : PatchUpdate(w)
    \/ \E w \in Workers : DeleteLoad(w)
    \/ \E w \in Workers : DeleteOwner(w)
    \/ \E w \in Workers : DeleteRow(w)
    \/ \E w \in Workers : Settle(w)
    \/ DeleteProject

SpecRace == InitRace /\ [][NextRace]_vars

-----------------------------------------------------------------------------
(* The comment routes with over-long contents among the bodies *)

InitContent == InitTables /\ InitWorkers /\ endpoint = "content"

NextContent ==
    \/ \E w \in Workers : GetBegin(w)
    \/ \E w \in Workers : GetUser(w)
    \/ \E w \in Workers : GetTarget(w)
    \/ \E w \in Workers : GetList(w)
    \/ \E w \in Workers : GetUsers(w)
    \/ \E w \in Workers : WriteBegin(w)
    \/ \E w \in Workers : Auth(w)
    \/ \E w \in Workers : AuthCreate(w)
    \/ \E w \in Workers : ParseBody(w)
    \/ \E w \in Workers : PostTarget(w)
    \/ \E w \in Workers : PostInsert(w)
    \/ \E w \in Workers : PatchLoad(w)
    \/ \E w \in Workers : PatchUpdate(w)
    \/ \E w \in Workers : DeleteLoad(w)
    \/ \E w \in Workers : DeleteOwner(w)
    \/ \E w \in Workers : DeleteRow(w)
    \/ \E w \in Workers : Settle(w)

SpecContent == InitContent /\ [][NextContent]_vars

-----------------------------------------------------------------------------
(* Crypto tips: POST (src/unnamed/part_003 6-135)                           *)

\* A dollar amount as the body carries it (a number or a numeric string),
\* counted in thousandths of a dollar.
Amt(m) == [t |-> "amt", m |-> m]

\* parseFloat(amount)
ParseFloat(x) == IF x.t = "amt" THEN x ELSE NaN

\* Math.round(parsedAmount * 100)
RoundCents(x) == (x.m + 5) \div 10

\* x ? String(x).slice(0, n) : null
SliceOrNull(x, n) == IF Falsy(x) THEN Null ELSE Str(Slice(x.v, n))

NoTipLoc == [payload |-> Null, data |-> Null]

\* The bodies a tip request can carry: the well-formed ones, and the
\* well-formed one with a single field missing or malformed.  The handler
\* never reads the authorization header; cred records what the request had.
TipBase ==
    [method |-> "POST", route |-> "tip", cred |-> "none", creatorId |-> "u1",
     amount |-> Amt(1500), tipperUsername |-> Str(<<"f">>), message |-> Null,
     paymentId |-> "pay1", txHash |-> "0xh1"]

TipRequests ==
    {[TipBase EXCEPT !.cred = c, !.txHash = h] : c \in {"none", "d2"}, h \in TxHashes}
    \cup {[TipBase EXCEPT !.creatorId = x] : x \in {NULL, "zz", "uX"}}
    \cup {[TipBase EXCEPT !.amount = a] :
             a \in {Null, Str(<<"x">>), Amt(5), Amt(500010)}}
    \cup {[TipBase EXCEPT !.txHash = h] : h \in {NULL, "zz"}}
    \cup {[TipBase EXCEPT !.paymentId = NULL]}
    \cup {[TipBase EXCEPT !.tipperUsername = Null, !.message = Str(<<"h", "i">>)]}

\* Lines 20-57: the validation and the sanitised fields.
TipValidateOutcome(r) ==
    LET parsedAmount == ParseFloat(r.amount)
    IN  IF r.creatorId = NULL \/ r.amount = Null \/ r.txHash = NULL
           \/ r.paymentId = NULL
        THEN Return(NoTipLoc, Error(400, "Missing required fields"))
        ELSE IF ~isValidUUID(r.creatorId)
        THEN Return(NoTipLoc, Error(400, "Invalid creator ID format"))
        ELSE IF ~isValidTxHash(r.txHash)
        THEN Return(NoTipLoc, Error(400, "Invalid transaction hash format"))
        ELSE IF parsedAmount = NaN \/ parsedAmount.m < 10 \/ parsedAmount.m > 500000
        THEN Return(NoTipLoc, Error(400, "Amount must be between $0.01 and $500"))
        ELSE Continue("tip_check",
                 [NoTipLoc EXCEPT !.payload =
                     [creator_id |-> r.creatorId,
                      amount |-> RoundCents(parsedAmount),
                      currency |-> "usdc",
                      tipper_username |-> SliceOrNull(r.tipperUsername, 100),
                      message |-> SliceOrNull(r.message, 500),
                      stripe_payment_intent_id |-> r.txHash,
                      stripe_session_id |-> r.paymentId,
                      status |-> "completed",
                      is_read |-> FALSE]])

\* Lines 59-72: the duplicate check.
TipCheckOutcome_NoCheck(r, l) == Continue("tip_creator", l)

TipCheckOutcome(r, l) ==
    LET existingTip == Single({t \in tips : t.stripe_payment_intent_id = r.txHash})
    IN  IF existingTip # Null
        THEN Return(l, Error(409, "This transaction has already been recorded"))
        ELSE Continue("tip_creator", l)

\* Lines 74-86: the creator must exist.
TipCreatorOutcome(r, l) ==
    LET creator == Single({u \in users : u.id = r.creatorId})
    IN  IF creator = Null
        THEN Return(l, Error(404, "Creator not found"))
        ELSE Continue("tip_insert", l)

\* Table tips: the payment reference is unique.
TipsInsertOk_NotUnique(row) == TRUE

TipsInsertOk(row) ==
    \A t \in tips : t.stripe_payment_intent_id # row.stripe_payment_intent_id

NewTipRow(payload) ==
    [id |-> "tip" \o ToString(nextId.tips + 1),
     creator_id |-> payload.creator_id,
     amount |-> payload.amount,
     currency |-> payload.currency,
     tipper_username |-> payload.tipper_username,
     message |-> payload.message,
     stripe_payment_intent_id |-> payload.stripe_payment_intent_id,
     stripe_session_id |-> payload.stripe_session_id,
     status |-> payload.status,
     is_read |-> payload.is_read]

\* lib/notifications createTipNotification: the creator's notification row.
NewTipNotification(payload) ==
    [id |-> "n" \o ToString(nextId.notifications + 1),
     user_id |-> payload.creator_id,
     type |-> "tip",
     amount |-> payload.amount]

\* Workers in the middle of a tip request.
TipsInFlight ==
    Cardinality({w \in Workers :
                    pc[w] \in {"tip_check", "tip_creator", "tip_insert", "tip_notify"}})

TipBegin(w) ==
    /\ endpoint = "tips"
    /\ nextId.tips + TipsInFlight < MaxTips
    /\ \E r \in TipRequests :
          /\ Accept(w, r)
          /\ Finish(w, TipValidateOutcome(r))
    /\ UNCHANGED <<tables, endpoint, form>>

TipCheck(w) ==
    /\ pc[w] = "tip_check"
    /\ Finish(w, TipCheckOutcome(req[w], loc[w]))
    /\ UNCHANGED <<tables, endpoint, form, req>>

TipCreator(w) ==
    /\ pc[w] = "tip_creator"
    /\ Finish(w, TipCreatorOutcome(req[w], loc[w]))
    /\ UNCHANGED <<tables, endpoint, form, req>>

\* Lines 93-116: the insert, and the 500 when the datastore refuses it.
TipInsert(w) ==
    /\ pc[w] = "tip_insert"
    /\ LET row == NewTipRow(loc[w].payload)
       IN  IF TipsInsertOk(row)
           THEN /\ tips' = tips \cup {row}
                /\ nextId' = [nextId EXCEPT !.tips = @ + 1]
                /\ Finish(w, Continue("tip_notify", [loc[w] EXCEPT !.data = row]))
           ELSE /\ UNCHANGED <<tips, nextId>>
                /\ Finish(w, Return(loc[w], Error(500, "Failed to record tip")))
    /\ UNCHANGED <<users, projects, comments, notifications, user_projects,
                   project_metrics, endpoint, form, req>>

\* Lines 118-127: the notification and the response.
TipNotify(w) ==
    /\ pc[w] = "tip_notify"
    /\ notifications' = notifications \cup {NewTipNotification(loc[w].payload)}
    /\ nextId' = [nextId EXCEPT !.notifications = @ + 1]
    /\ Finish(w, Return(loc[w], [status |-> 200, kind |-> "tip",
                                 data |-> loc[w].data.id]))
    /\ UNCHANGED <<users, projects, comments, tips, user_projects,
                   project_metrics, endpoint, form, req>>

InitTips == InitTables /\ InitWorkers /\ endpoint = "tips"

NextTips ==
    \/ \E w \in Workers : TipBegin(w)
    \/ \E w \in Workers : TipCheck(w)
    \/ \E w \in Workers : TipCreator(w)
    \/ \E w \in Workers : TipInsert(w)
    \/ \E w \in Workers : TipNotify(w)
    \/ \E w \in Workers : Settle(w)

SpecTips == InitTips /\ [][NextTips]_vars

-----------------------------------------------------------------------------
(* Library: POST, DELETE and PATCH (src/unnamed/part_000)                   *)

\* A JS boolean in a request body.
Bool(b) == [t |-> "bool", v |-> b]

\* The credentials of the requests to the library and user routes.
AccountCredentials == {"none", "bad", "d1", "d2"}

\* The requests as they arrive, and the project_id and pinned that the body
\* (the search parameters for DELETE) can carry.  The project ids are those
\* of stored projects, or malformed, or missing.
LibraryRequests ==
    {[method |-> m, route |-> "library", cred |-> c, project_id |-> NULL,
      pinned |-> Undefined] :
        m \in {"POST", "DELETE", "PATCH"}, c \in AccountCredentials}

LibraryBodies(r) ==
    IF r.method = "PATCH"
    THEN {<<"p1", x>> : x \in {Undefined, Bool(TRUE), Bool(FALSE)}}
         \cup {<<x, Bool(TRUE)>> : x \in {NULL, "zz"}}
    ELSE {<<x, Undefined>> : x \in {NULL, "zz", "p1"}}

\* The checks of the parsed fields: POST 20-25, DELETE 78-83, PATCH 114-123.
LibValidateOutcome(r, l) ==
    IF r.project_id = NULL \/ ~isValidUUID(r.project_id)
    THEN Return(l, Error(400, "Valid project ID is required"))
    ELSE IF r.method = "PATCH" /\ r.pinned.t # "bool"
    THEN Return(l, Error(400, "Pinned must be a boolean value"))
    ELSE Continue(CASE r.method = "POST" -> "lib_check"
                    [] r.method = "DELETE" -> "lib_delete"
                    [] r.method = "PATCH" -> "lib_pin", l)

\* from('user_projects') ... .eq('user_id', u).eq('project_id', p)
LibEntries(user_id, project_id) ==
    {e \in user_projects : e.user_id = user_id /\ e.project_id = project_id}

\* POST 27-37: the existence check.
LibCheckOutcome_NoCheck(r, l) == Continue("lib_insert", l)

LibCheckOutcome(r, l) ==
    LET existing == Single(LibEntries(l.user.id, r.project_id))
    IN  IF existing # Null
        THEN Return(l, [status |-> 200, kind |-> "message",
                        data |-> "Already in library"])
        ELSE Continue("lib_insert", l)

\* Table user_projects: one row per (user_id, project_id).
UserProjectsInsertOk_NotUnique(row) == TRUE

UserProjectsInsertOk(row) == LibEntries(row.user_id, row.project_id) = {}

\* The row the datastore makes of insert({ user_id, project_id }).
NewUserProjectRow(user_id, project_id) ==
    [id |-> "up" \o ToString(nextId.user_projects + 1), user_id |-> user_id,
     project_id |-> project_id, pinned |-> FALSE]

\* src/supabase/add_increment_metric_function.sql: the rows of
\* project_metrics after increment_metric(p_project_id, p_field), or the
\* exception for a field outside the list.
increment_metric_Overwrite(p_project_id, p_field) ==
    IF p_field \notin {"plays", "shares", "adds"}
    THEN [error |-> TRUE, rows |-> project_metrics]
    ELSE [error |-> FALSE,
          rows |-> {m \in project_metrics : m.project_id # p_project_id}
                   \cup {[[project_id |-> p_project_id, plays |-> 0,
                           shares |-> 0, adds |-> 0] EXCEPT ![p_field] = 1]}]

increment_metric(p_project_id, p_field) ==
    IF p_field \notin {"plays", "shares", "adds"}
    THEN [error |-> TRUE, rows |-> project_metrics]
    ELSE LET inserted ==
                 IF \E m \in project_metrics : m.project_id = p_project_id
                 THEN project_metrics
                 ELSE project_metrics \cup
                          {[project_id |-> p_project_id, plays |-> 0,
                            shares |-> 0, adds |-> 0]}
         IN  [error |-> FALSE,
              rows |-> {IF m.project_id = p_project_id
                        THEN [m EXCEPT ![p_field] = @ + 1] ELSE m :
                            m \in inserted}]

\* Workers on the way to the insert of a library entry.
LibAddsInFlight ==
    Cardinality({w \in Workers :
                    /\ req[w].route = "library" /\ req[w].method = "POST"
                    /\ pc[w] \in {"auth", "parse", "lib_check", "lib_insert"}})

LibBegin(w) ==
    /\ endpoint = "library"
    /\ \E r \in LibraryRequests :
          /\ r.method = "POST" =>
                nextId.user_projects + LibAddsInFlight < MaxEntries
          /\ Accept(w, r)
          /\ Finish(w, Continue("auth", NoLoc))
    /\ UNCHANGED <<tables, endpoint, form>>

\* await request.json() (the search parameters for DELETE) and the checks.
LibParse(w) ==
    /\ pc[w] = "parse"
    /\ req[w].route = "library"
    /\ \E body \in LibraryBodies(req[w]) :
          LET r == [req[w] EXCEPT !.project_id = body[1], !.pinned = body[2]]
          IN  /\ req' = [req EXCEPT ![w] = r]
              /\ Finish(w, LibValidateOutcome(r, loc[w]))
    /\ UNCHANGED <<tables, endpoint, form>>

LibCheck(w) ==
    /\ pc[w] = "lib_check"
    /\ Finish(w, LibCheckOutcome(req[w], loc[w]))
    /\ UNCHANGED <<tables, endpoint, form, req>>

\* POST 39-46: the insert; its error is thrown and answered 500.
LibInsert(w) ==
    /\ pc[w] = "lib_insert"
    /\ LET row == NewUserProjectRow(loc[w].user.id, req[w].project_id)
       IN  IF UserProjectsInsertOk(row)
           THEN /\ user_projects' = user_projects \cup {row}
                /\ nextId' = [nextId EXCEPT !.user_projects = @ + 1]
                /\ Finish(w, Continue("lib_metric", [loc[w] EXCEPT !.data = row]))
           ELSE /\ UNCHANGED <<user_projects, nextId>>
                /\ Finish(w, Return(loc[w], Error(500, "Internal server error")))
    /\ UNCHANGED <<users, projects, comments, tips, notifications,
                   project_metrics, endpoint, form, req>>

\* POST 48-56: the adds counter and the response.
LibMetric(w) ==
    /\ pc[w] = "lib_metric"
    /\ project_metrics' = increment_metric(req[w].project_id, "adds").rows
    /\ Finish(w, Return(loc[w], [status |-> 201, kind |-> "userProject",
                                 data |-> loc[w].data]))
    /\ UNCHANGED <<users, projects, comments, tips, notifications,
                   user_projects, nextId, endpoint, form, req>>

\* DELETE 85-93.
LibDelete_AnyUser(w) ==
    /\ pc[w] = "lib_delete"
    /\ user_projects' =
          {e \in user_projects : e.project_id # req[w].project_id}
    /\ Finish(w, Return(loc[w], [status |-> 200, kind |-> "success",
                                 data |-> Null]))
    /\ UNCHANGED <<users, projects, comments, tips, notifications,
                   project_metrics, nextId, endpoint, form, req>>

LibDelete(w) ==
    /\ pc[w] = "lib_delete"
    /\ user_projects' =
          user_projects \ LibEntries(loc[w].user.id, req[w].project_id)
    /\ Finish(w, Return(loc[w], [status |-> 200, kind |-> "success",
                                 data |-> Null]))
    /\ UNCHANGED <<users, projects, comments, tips, notifications,
                   project_metrics, nextId, endpoint, form, req>>

\* PATCH 125-135: the update; .single() fails unless one row was updated.
LibPin(w) ==
    /\ pc[w] = "lib_pin"
    /\ LET matched == LibEntries(loc[w].user.id, req[w].project_id)
           updated == {[e EXCEPT !.pinned = req[w].pinned.v] : e \in matched}
       IN  /\ user_projects' = (user_projects \ matched) \cup updated
           /\ Finish(w, IF Cardinality(updated) = 1
                        THEN Return(loc[w], [status |-> 200,
                                             kind |-> "userProject",
                                             data |-> Single(updated)])
                        ELSE Return(loc[w], Error(500, "Internal server error")))
    /\ UNCHANGED <<users, projects, comments, tips, notifications,
                   project_metrics, nextId, endpoint, form, req>>

InitLibrary == InitTables /\ InitWorkers /\ endpoint = "library"

NextLibrary ==
    \/ \E w \in Workers : LibBegin(w)
    \/ \E w \in Workers : Auth(w)
    \/ \E w \in Workers : LibParse(w)
    \/ \E w \in Workers : LibCheck(w)
    \/ \E w \in Workers : LibInsert(w)
    \/ \E w \in Workers : LibMetric(w)
    \/ \E w \in Workers : LibDelete(w)
    \/ \E w \in Workers : LibPin(w)
    \/ \E w \in Workers : Settle(w)

SpecLibrary == InitLibrary /\ [][NextLibrary]_vars

-----------------------------------------------------------------------------
(* Metrics: POST /api/metrics (src/unnamed/part_001)                        *)

\* VALID_FIELDS
VALID_FIELDS == {"plays", "shares", "adds"}

\* The bodies of a metrics request: every valid field of the stored project,
\* and a body with one part missing, malformed or unknown.
MetricsRequests ==
    {[method |-> "POST", route |-> "metrics", cred |-> "none",
      project_id |-> b[1], field |-> b[2]] :
        b \in {<<"p1", f>> : f \in VALID_FIELDS}
              \cup {<<NULL, "plays">>, <<"p1", NULL>>, <<"zz", "plays">>,
                    <<"p1", "likes">>, <<"pX", "adds">>}}

\* Lines 16-37: the checks of the body.
MetricsValidateOutcome(r) ==
    IF r.project_id = NULL \/ r.field = NULL
    THEN Return(NoLoc, Error(400, "project_id and field are required"))
    ELSE IF ~isValidUUID(r.project_id)
    THEN Return(NoLoc, Error(400, "Invalid project_id format"))
    ELSE IF r.field \notin VALID_FIELDS
    THEN Return(NoLoc, Error(400, "Invalid field"))
    ELSE Continue("met_project", NoLoc)

\* Lines 39-51: the project must exist.
MetricsProjectOutcome_NoLookup(r, l) == Continue("met_rpc", l)

MetricsProjectOutcome(r, l) ==
    IF ProjectById(r.project_id) = Null
    THEN Return(l, Error(404, "Project not found"))
    ELSE Continue("met_rpc", l)

\* The sum of all counters.
RECURSIVE MetricsTotal(_)
MetricsTotal(rows) ==
    IF rows = {} THEN 0
    ELSE LET m == CHOOSE x \in rows : TRUE
         IN  m.plays + m.shares + m.adds + MetricsTotal(rows \ {m})

\* Workers on the way to the increment.
IncrementsInFlight ==
    Cardinality({w \in Workers : pc[w] \in {"met_project", "met_rpc"}})

MetricsBegin(w) ==
    /\ endpoint = "metrics"
    /\ MetricsTotal(project_metrics) + IncrementsInFlight < MaxIncrements
    /\ \E r \in MetricsRequests :
          /\ Accept(w, r)
          /\ Finish(w, MetricsValidateOutcome(r))
    /\ UNCHANGED <<tables, endpoint, form>>

MetricsProject(w) ==
    /\ pc[w] = "met_project"
    /\ Finish(w, MetricsProjectOutcome(req[w], loc[w]))
    /\ UNCHANGED <<tables, endpoint, form, req>>

\* Lines 53-63: the call of increment_metric.
MetricsRpc(w) ==
    /\ pc[w] = "met_rpc"
    /\ LET result == increment_metric(req[w].project_id, req[w].field)
       IN  /\ project_metrics' = result.rows
           /\ Finish(w, IF result.error
                        THEN Return(loc[w], Error(500, "Failed to update metric"))
                        ELSE Continue("met_read", loc[w]))
    /\ UNCHANGED <<users, projects, comments, tips, notifications,
                   user_projects, nextId, endpoint, form, req>>

\* Lines 65-72: the metrics row is read back and returned.
MetricsRead(w) ==
    /\ pc[w] = "met_read"
    /\ Finish(w, Return(loc[w],
                   [status |-> 200, kind |-> "metrics",
                    data |-> Single({m \in project_metrics :
                                        m.project_id = req[w].project_id})]))
    /\ UNCHANGED <<tables, endpoint, form, req>>

InitMetrics == InitTables /\ InitWorkers /\ endpoint = "metrics"

NextMetrics ==
    \/ \E w \in Workers : MetricsBegin(w)
    \/ \E w \in Workers : MetricsProject(w)
    \/ \E w \in Workers : MetricsRpc(w)
    \/ \E w \in Workers : MetricsRead(w)
    \/ \E w \in Workers : Settle(w)

SpecMetrics == InitMetrics /\ [][NextMetrics]_vars

-----------------------------------------------------------------------------
(* User profile: PATCH /api/user (src/unnamed/part_003 210-303)             *)

\* /^[a-zA-Z0-9_-]{3,50}$/ over the characters the inputs use.
UsernameChars == {"a", "b", "i", "l", "o", "_", "-", "1"}
IsUsername(s) ==
    /\ Len(s) >= 3 /\ Len(s) <= 50
    /\ \A i \in 1 .. Len(s) : s[i] \in UsernameChars

\* /^0x[a-fA-F0-9]{40}$/: "0xw" stands for a well-formed address.
IsWalletAddress(s) == s = <<"0", "x", "w">>

\* /^https?:\/\//
IsHttpUrl(s) ==
    \/ Len(s) >= 7 /\ SubSeq(s, 1, 7) = <<"h", "t", "t", "p", ":", "/", "/">>
    \/ Len(s) >= 8 /\ SubSeq(s, 1, 8) = <<"h", "t", "t", "p", "s", ":", "/", "/">>

\* A body of PATCH /api/user: the fields the model follows, Undefined for a
\* field the body does not have.  bio stands for the allow-listed fields
\* that take the general branch (bio, contact_email, instagram, twitter,
\* farcaster, avatar_url); privy_id is a field outside the allow-list.
NoBody ==
    [username |-> Undefined, bio |-> Undefined, website |-> Undefined,
     wallet_address |-> Undefined, privy_id |-> Undefined,
     stripe_account_id |-> Undefined]

UserPatchBodies ==
    {NoBody,
     [NoBody EXCEPT !.username = Str(<<" ", "b", "o", "b">>)],
     [NoBody EXCEPT !.username = Str(<<"b", "!">>)],
     [NoBody EXCEPT !.bio = Str(<<"h", "i", " ">>)],
     [NoBody EXCEPT !.website = Str(<<"x">>)],
     [NoBody EXCEPT !.wallet_address = Str(<<"z">>)],
     [NoBody EXCEPT !.privy_id = Str(<<"d", "1">>)],
     [NoBody EXCEPT !.privy_id = Str(<<"d", "1">>), !.bio = Null],
     [NoBody EXCEPT !.stripe_account_id = Str(<<"m", "i", "n", "e">>),
                    !.bio = Str(<<"h", "i", " ">>)]}

UserRequests ==
    {[method |-> "PATCH", route |-> "user", cred |-> c, body |-> NoBody] :
        c \in AccountCredentials}

\* The fields of the allow-list (fieldLimits, 227-237) the model follows.
ProfileFields == {"username", "bio", "website", "wallet_address"}

\* Lines 243-277: the value updates[field] gets, Undefined when the field
\* is not in the body, or the refusal of a malformed value.
Invalid == [t |-> "invalid"]

FieldUpdate(field, value) ==
    IF value = Undefined THEN Undefined
    ELSE IF field = "wallet_address" /\ ~Falsy(value)
    THEN LET address == Trim(value.v)
         IN  IF address # <<>> /\ ~IsWalletAddress(address) THEN Invalid
             ELSE IF address = <<>> THEN Null ELSE Str(address)
    ELSE IF field = "username" /\ ~Falsy(value)
    THEN LET username == Trim(value.v)
         IN  IF username # <<>> /\ ~IsUsername(username) THEN Invalid
             ELSE IF username = <<>> THEN Null ELSE Str(username)
    ELSE IF field = "website" /\ ~Falsy(value)
    THEN LET url == Trim(value.v)
         IN  IF url # <<>> /\ ~IsHttpUrl(url) THEN Invalid
             ELSE sanitizeText(Str(url), 500)
    ELSE sanitizeText(value, IF field = "username" THEN 50
                             ELSE IF field = "wallet_address" THEN 42
                             ELSE 500)

UserPatchOutcome(r, l) ==
    LET updates == [f \in ProfileFields |-> FieldUpdate(f, r.body[f])]
    IN  IF updates["username"] = Invalid
        THEN Return(l, Error(400, "Username must be 3-50 characters"))
        ELSE IF updates["website"] = Invalid
        THEN Return(l, Error(400, "Website must start with http:// or https://"))
        ELSE IF updates["wallet_address"] = Invalid
        THEN Return(l, Error(400, "Invalid Ethereum wallet address"))
        ELSE IF \A f \in ProfileFields : updates[f] = Undefined
        THEN Return(l, Error(400, "No valid fields to update"))
        ELSE Continue("user_update", [l EXCEPT !.payload = updates])

\* update(updates) on one row.
ApplyUpdates(row, updates) ==
    [c \in DOMAIN row |->
        IF c \in ProfileFields /\ updates[c] # Undefined
        THEN updates[c] ELSE row[c]]

UserBegin(w) ==
    /\ endpoint = "user"
    /\ \E r \in UserRequests :
          /\ Accept(w, r)
          /\ Finish(w, Continue("auth", NoLoc))
    /\ UNCHANGED <<tables, endpoint, form>>

\* await request.json() and lines 226-281.
UserParse(w) ==
    /\ pc[w] = "parse"
    /\ req[w].route = "user"
    /\ \E body \in UserPatchBodies :
          LET r == [req[w] EXCEPT !.body = body]
          IN  /\ req' = [req EXCEPT ![w] = r]
              /\ Finish(w, UserPatchOutcome(r, loc[w]))
    /\ UNCHANGED <<tables, endpoint, form>>

UserUpdate_AllRows(w) ==
    /\ pc[w] = "user_update"
    /\ LET updated == {ApplyUpdates(u, loc[w].payload) : u \in users}
       IN  /\ users' = updated
           /\ Finish(w, Return(loc[w], [status |-> 200, kind |-> "user",
                                        data |-> ApplyUpdates(loc[w].user,
                                                              loc[w].payload)]))
    /\ UNCHANGED <<projects, comments, tips, notifications, user_projects,
                   project_metrics, nextId, endpoint, form, req>>

\* Lines 283-295: the update of the caller's row.
UserUpdate(w) ==
    /\ pc[w] = "user_update"
    /\ LET matched == {u \in users : u.id = loc[w].user.id}
           updated == {ApplyUpdates(u, loc[w].payload) : u \in matched}
       IN  /\ users' = (users \ matched) \cup updated
           /\ Finish(w, IF Cardinality(updated) = 1
                        THEN Return(loc[w], [status |-> 200, kind |-> "user",
                                             data |-> Single(updated)])
                        ELSE Return(loc[w], Error(500, "Failed to update user")))
    /\ UNCHANGED <<projects, comments, tips, notifications, user_projects,
                   project_metrics, nextId, endpoint, form, req>>

InitUser == InitTables /\ InitWorkers /\ endpoint = "user"

NextUser ==
    \/ \E w \in Workers : UserBegin(w)
    \/ \E w \in Workers : Auth(w)
    \/ \E w \in Workers : UserParse(w)
    \/ \E w \in Workers : UserUpdate(w)
    \/ \E w \in Workers : Settle(w)

SpecUser == InitUser /\ [][NextUser]_vars

-----------------------------------------------------------------------------
(* Identity resolution under concurrency: POST /api/user                    *)
(* (src/unnamed/part_003 165-207) beside requests to the comment route of   *)
(* src/app/_privy/coop/route.ts, which resolves through                     *)
(* getOrCreateUserByPrivyId                                                 *)

\* The requests: the login call, and a DELETE of the coop comment route for
\* an id that no comment has.
IdentityCredentials == {"none", "d1", "d3"}

UserPostRequests ==
    {[method |-> "POST", route |-> "user", cred |-> c, email |-> e] :
        c \in IdentityCredentials, e \in {Undefined, Str(<<"c", "@", "x">>)}}

CoopRequests ==
    {[NoReq EXCEPT !.method = "DELETE", !.route = "coop", !.cred = c,
                   !.id = "cX"] : c \in IdentityCredentials}

\* Lines 167-174: the token check before the body is read.
UserPostVerifyOutcome(r) ==
    LET authResult == verifyPrivyToken(r.cred)
    IN  IF ~authResult.success \/ authResult.privyId = NULL
        THEN Return(NoLoc, Error(401, "Unauthorized"))
        ELSE Continue("user_lookup", NoLoc)

\* Lines 176-185: the existing user is returned.
UserPostLookupOutcome(r, l) ==
    LET existingUser == Single({u \in users : u.privy_id = r.cred})
    IN  IF existingUser # Null
        THEN Return(l, [status |-> 200, kind |-> "user", data |-> existingUser])
        ELSE Continue("user_insert", l)

IdentityBegin(w) ==
    /\ endpoint = "identity"
    /\ \E r \in UserPostRequests \cup CoopRequests :
          /\ Accept(w, r)
          /\ Finish(w, IF r.route = "user" THEN UserPostVerifyOutcome(r)
                       ELSE Continue("auth", NoLoc))
    /\ UNCHANGED <<tables, endpoint, form>>

UserPostLookup(w) ==
    /\ pc[w] = "user_lookup"
    /\ Finish(w, UserPostLookupOutcome(req[w], loc[w]))
    /\ UNCHANGED <<tables, endpoint, form, req>>

\* Lines 187-202: the insert; its error is answered 500.
UserPostInsert(w) ==
    /\ pc[w] = "user_insert"
    /\ LET row == NewUserRow(req[w].cred,
                             IF Falsy(req[w].email) THEN Null ELSE req[w].email)
       IN  IF UsersInsertOk(row)
           THEN /\ users' = users \cup {row}
                /\ nextId' = [nextId EXCEPT !.users = @ + 1]
                /\ Finish(w, Return(loc[w], [status |-> 201, kind |-> "user",
                                             data |-> row]))
           ELSE /\ UNCHANGED <<users, nextId>>
                /\ Finish(w, Return(loc[w], Error(500, "Failed to create user")))
    /\ UNCHANGED <<projects, comments, tips, notifications, user_projects,
                   project_metrics, endpoint, form, req>>

InitIdentity == InitTables /\ InitWorkers /\ endpoint = "identity"

NextIdentity ==
    \/ \E w \in Workers : IdentityBegin(w)
    \/ \E w \in Workers : UserPostLookup(w)
    \/ \E w \in Workers : UserPostInsert(w)
    \/ \E w \in Workers : Auth(w)
    \/ \E w \in Workers : AuthCreate(w)
    \/ \E w \in Workers : AuthRetry(w)
    \/ \E w \in Workers : ParseBody(w)
    \/ \E w \in Workers : DeleteLoad(w)
    \/ \E w \in Workers : Settle(w)

SpecIdentity == InitIdentity /\ [][NextIdentity]_vars

-----------------------------------------------------------------------------
(* The new-project page: handleSubmit                                       *)
(* (src/components/NewProjectPage.tsx 155-295)                              *)
(*                                                                          *)
(* A worker is one invocation of handleSubmit.  form.loading and            *)
(* form.submitted are the React state as set; form.shown is that state as   *)
(* of the last render, which is what the handler of a submit event reads.   *)
(* form.posts counts the POST /api/projects requests sent, form.projects    *)
(* the projects they created, form.tracks the <<project, order>> pairs of   *)
(* the tracks POST /api/tracks created.                                     *)

\* The form at a submit event: the signed-in user (or none) and the tracks
\* of the list, each with a title or without.
FormSubmissions ==
    {[method |-> "SUBMIT", route |-> "form", cred |-> c, tracks |-> t] :
        c \in {"none", "d1"},
        t \in UNION {[1 .. n -> BOOLEAN] : n \in 0 .. MaxTracks}}

\* Line 159: if (!user || loading || submitted) return
SubmitIgnored(r, shown) ==
    r.cred = "none" \/ shown.loading \/ shown.submitted

\* The toast a submission ends with.
Toast(kind, message) == [status |-> 0, kind |-> kind, data |-> message]

\* Lines 289-294: the catch of handleSubmit.
CatchOutcome(f, l, message) ==
    [form |-> [f EXCEPT !.loading = FALSE], next |-> "done", loc |-> l,
     resp |-> Toast("error", message)]

\* Lines 195-204: the checks of the track list.
TracksToUploadOk(r) ==
    /\ Len(r.tracks) # 0
    /\ \A i \in 1 .. Len(r.tracks) : r.tracks[i]

\* Lines 236-273, one round of the loop: the upload and the save of track
\* l.i succeed, or one of them fails.  A failure is rethrown to the catch
\* of handleSubmit.
TrackOutcome_SkipsFailedTrack(f, r, l, ok) ==
    LET made == IF ok THEN f.tracks \cup {<<l.project, l.i>>} ELSE f.tracks
    IN  IF l.i + 1 < Len(r.tracks)
        THEN [form |-> [f EXCEPT !.tracks = made], next |-> "form_track",
              loc |-> [l EXCEPT !.i = @ + 1], resp |-> NoResp]
        ELSE [form |-> [f EXCEPT !.tracks = made, !.submitted = TRUE],
              next |-> "done", loc |-> l,
              resp |-> Toast("success", "Project created successfully!")]

TrackOutcome(f, r, l, ok) ==
    IF ~ok
    THEN CatchOutcome(f, l, "Failed to add track")
    ELSE LET made == f.tracks \cup {<<l.project, l.i>>}
         IN  IF l.i + 1 < Len(r.tracks)
             THEN [form |-> [f EXCEPT !.tracks = made], next |-> "form_track",
                   loc |-> [l EXCEPT !.i = @ + 1], resp |-> NoResp]
             ELSE [form |-> [f EXCEPT !.tracks = made, !.submitted = TRUE],
                   next |-> "done", loc |-> l,
                   resp |-> Toast("success", "Project created successfully!")]

\* A step of the handler ends with outcome o.
FormFinish(w, o) ==
    /\ form' = o.form
    /\ pc' = [pc EXCEPT ![w] = o.next]
    /\ loc' = [loc EXCEPT ![w] = o.loc]
    /\ resp' = [resp EXCEPT ![w] = o.resp]

\* Submissions that have passed the guard and not yet sent their POST.
SubmissionsBeforePost ==
    Cardinality({w \in Workers : pc[w] = "form_prepare"})

\* A submit event: lines 156-161.
FormSubmit(w) ==
    /\ endpoint = "form"
    /\ form.posts + SubmissionsBeforePost < MaxPosts
    /\ \E r \in FormSubmissions :
          /\ Accept(w, r)
          /\ FormFinish(w,
                IF SubmitIgnored(r, form.shown)
                THEN [form |-> form, next |-> "done", loc |-> NoLoc,
                      resp |-> Toast("ignored", "")]
                ELSE [form |-> [form EXCEPT !.loading = TRUE],
                      next |-> "form_prepare",
                      loc |-> [project |-> 0, i |-> 0], resp |-> NoResp])
    /\ UNCHANGED <<tables, endpoint>>

\* React renders the page with the state as set: the handlers of later
\* events read these values.
FormRender ==
    /\ endpoint = "form"
    /\ form.shown # [loading |-> form.loading, submitted |-> form.submitted]
    /\ form' = [form EXCEPT !.shown = [loading |-> form.loading,
                                       submitted |-> form.submitted]]
    /\ UNCHANGED <<tables, endpoint, pc, req, loc, resp>>

\* Lines 163-210: the token, the user row, the checks of the track list and
\* the upload of the cover; each await can throw.
FormPrepare(w) ==
    /\ pc[w] = "form_prepare"
    /\ \E ok \in BOOLEAN :
          FormFinish(w,
              IF ~ok
              THEN CatchOutcome(form, loc[w], "Failed to create project")
              ELSE IF ~TracksToUploadOk(req[w])
              THEN CatchOutcome(form, loc[w], "Add at least one titled track")
              ELSE [form |-> form, next |-> "form_project", loc |-> loc[w],
                    resp |-> NoResp])
    /\ UNCHANGED <<tables, endpoint, req>>

\* Lines 212-233: POST /api/projects and its response.
FormProject(w) ==
    /\ pc[w] = "form_project"
    /\ \E ok \in BOOLEAN :
          LET posted == [form EXCEPT !.posts = @ + 1]
          IN  FormFinish(w,
                  IF ~ok
                  THEN CatchOutcome(posted, loc[w], "Failed to create project")
                  ELSE [form |-> [posted EXCEPT !.projects = @ + 1],
                        next |-> "form_track",
                        loc |-> [project |-> form.projects + 1, i |-> 0],
                        resp |-> NoResp])
    /\ UNCHANGED <<tables, endpoint, req>>

\* Lines 236-273 and 275-287: one track, and the end of the loop.
FormTrack(w) ==
    /\ pc[w] = "form_track"
    /\ \E ok \in BOOLEAN :
          FormFinish(w, TrackOutcome(form, req[w], loc[w], ok))
    /\ UNCHANGED <<tables, endpoint, req>>

InitForm == InitTables /\ InitWorkers /\ endpoint = "form"

NextForm ==
    \/ \E w \in Workers : FormSubmit(w)
    \/ \E w \in Workers : FormPrepare(w)
    \/ \E w \in Workers : FormProject(w)
    \/ \E w \in Workers : FormTrack(w)
    \/ \E w \in Workers : Settle(w)
    \/ FormRender

SpecForm == InitForm /\ [][NextForm]_vars

-----------------------------------------------------------------------------
(* All routes: the workers serve one route family *)

Init == InitComments \/ InitTips \/ InitLibrary \/ InitUser \/ InitMetrics
          \/ InitIdentity \/ InitRace \/ InitContent \/ InitForm

Next ==
    \/ \E w \in Workers : GetBegin(w)
    \/ \E w \in Workers : GetUser(w)
    \/ \E w \in Workers : GetTarget(w)
    \/ \E w \in Workers : GetList(w)
    \/ \E w \in Workers : GetUsers(w)
    \/ \E w \in Workers : WriteBegin(w)
    \/ \E w \in Workers : Auth(w)
    \/ \E w \in Workers : AuthCreate(w)
    \/ \E w \in Workers : ParseBody(w)
    \/ \E w \in Workers : PostTarget(w)
    \/ \E w \in Workers : PostInsert(w)
    \/ \E w \in Workers : PatchLoad(w)
    \/ \E w \in Workers : PatchUpdate(w)
    \/ \E w \in Workers : DeleteLoad(w)
    \/ \E w \in Workers : DeleteOwner(w)
    \/ \E w \in Workers : DeleteRow(w)
    \/ SetSharing
    \/ DeleteProject
    \/ \E w \in Workers : FormSubmit(w)
    \/ \E w \in Workers : FormPrepare(w)
    \/ \E w \in Workers : FormProject(w)
    \/ \E w \in Workers : FormTrack(w)
    \/ FormRender
    \/ \E w \in Workers : TipBegin(w)
    \/ \E w \in Workers : TipCheck(w)
    \/ \E w \in Workers : TipCreator(w)
    \/ \E w \in Workers : TipInsert(w)
    \/ \E w \in Workers : TipNotify(w)
    \/ \E w \in Workers : LibBegin(w)
    \/ \E w \in Workers : LibParse(w)
    \/ \E w \in Workers : LibCheck(w)
    \/ \E w \in Workers : LibInsert(w)
    \/ \E w \in Workers : LibMetric(w)
    \/ \E w \in Workers : LibDelete(w)
    \/ \E w \in Workers : LibPin(w)
    \/ \E w \in Workers : MetricsBegin(w)
    \/ \E w \in Workers : MetricsProject(w)
    \/ \E w \in Workers : MetricsRpc(w)
    \/ \E w \in Workers : MetricsRead(w)
    \/ \E w \in Workers : UserBegin(w)
    \/ \E w \in Workers : UserParse(w)
    \/ \E w \in Workers : UserUpdate(w)
    \/ \E w \in Workers : IdentityBegin(w)
    \/ \E w \in Workers : UserPostLookup(w)
    \/ \E w \in Workers : UserPostInsert(w)
    \/ \E w \in Workers : AuthRetry(w)
    \/ \E w \in Workers : Settle(w)

Spec == Init /\ [][Next]_vars

-----------------------------------------------------------------------------
(* Properties of the comment routes *)

\* The ids of the users rows a credential stands for (none for a missing or
\* rejected one, and for an identity without a users row).
CallerIds(cred) == {u.id : u \in {x \in users : x.privy_id = cred}}

\* The project a comment hangs under: its project, or the parent project of
\* its track.
ParentProjects(project_id, track_id) ==
    IF project_id # NULL
    THEN {p \in projects : p.id = project_id}
    ELSE {p \in projects : \E t \in tracks : t.id = track_id /\ t.project_id = p.id}

\* The effective owners of a comment's target.
OwnerIds(c) == {p.creator_id : p \in ParentProjects(c.project_id, c.track_id)}

StoredComment(id) == {c \in comments : c.id = id}

\* C1: every comment in a 200 response of GET carries can_edit = (the caller
\* is its author) and can_delete = (the caller is its author or the effective
\* owner of its target); an anonymous caller gets both false.
C1_CapabilityFlags ==
    \A w \in Workers :
        (pc[w] = "done" /\ req[w].method = "GET" /\ resp[w].status = 200) =>
            \A i \in DOMAIN resp[w].data :
                LET e == resp[w].data[i]
                    isAuthor == e.comment.user_id \in CallerIds(req[w].cred)
                    isOwner == OwnerIds(e.comment) \cap CallerIds(req[w].cred) # {}
                IN  /\ e.can_edit = isAuthor
                    /\ e.can_delete = (isAuthor \/ isOwner)
                    /\ req[w].cred \notin PrivyIds => ~e.can_edit /\ ~e.can_delete

\* The owner of the project has fetched a list holding another user's comment.
C1_Witness ==
    \E w \in Workers :
        /\ pc[w] = "done" /\ req[w].method = "GET" /\ resp[w].status = 200
        /\ \E i \in DOMAIN resp[w].data :
              /\ resp[w].data[i].can_delete
              /\ ~resp[w].data[i].can_edit
              /\ resp[w].data[i].comment.user_id \notin CallerIds(req[w].cred)

\* The caller of worker w's request is the author, or the effective owner of
\* the target, of comment c.
MayDelete(w, c) ==
    \/ c.user_id \in CallerIds(req[w].cred)
    \/ OwnerIds(c) \cap CallerIds(req[w].cred) # {}

\* C2: a comment row disappears only in the delete step of a DELETE whose
\* caller is its author or the effective owner of its target; the permission
\* step lets exactly these callers through, answers every other caller 403
\* and leaves the comment in place.
C2_DeleteAuthorOrOwner ==
    [][/\ \A c \in comments :
            StoredComment(c.id)' = {} =>
                \E w \in Workers :
                    /\ pc[w] = "del_delete" /\ pc'[w] = "done"
                    /\ req[w].method = "DELETE" /\ req[w].id = c.id
                    /\ MayDelete(w, c)
                    /\ resp'[w].status = 200
       /\ \A w \in Workers :
            (pc[w] = "del_owner" /\ pc'[w] # "del_owner") =>
                LET c == loc[w].existing
                IN  IF MayDelete(w, c)
                    THEN pc'[w] = "del_delete"
                    ELSE /\ pc'[w] = "done"
                         /\ resp'[w].status = 403
                         /\ comments' = comments
                         /\ StoredComment(c.id)' # {}
       /\ \A w \in Workers :
            (pc[w] = "del_delete" /\ pc'[w] # "del_delete") =>
                /\ resp'[w].status = 200
                /\ StoredComment(req[w].id)' = {}
      ]_vars

\* The project's creator has deleted a comment written by another user.
C2_Witness ==
    \E w \in Workers :
        /\ pc[w] = "done" /\ req[w].method = "DELETE" /\ resp[w].status = 200
        /\ loc[w].existing.user_id \notin CallerIds(req[w].cred)
        /\ OwnerIds(loc[w].existing) \cap CallerIds(req[w].cred) # {}
        /\ StoredComment(req[w].id) = {}

\* C3: the content of a comment changes only in the update step of a PATCH
\* whose caller is the comment's author; the permission step answers every
\* other caller, the owner of the target project included, 403 and leaves
\* the comments as they are.
C3_PatchAuthorOnly ==
    [][/\ \A c \in comments :
            (\E d \in StoredComment(c.id)' : d.content # c.content) =>
                \E w \in Workers :
                    /\ pc[w] = "patch_update" /\ pc'[w] = "done"
                    /\ req[w].method = "PATCH" /\ req[w].id = c.id
                    /\ c.user_id \in CallerIds(req[w].cred)
       /\ \A w \in Workers :
            (pc[w] = "patch_load" /\ pc'[w] # "patch_load") =>
                \A c \in StoredComment(req[w].id) :
                    IF c.user_id \in CallerIds(req[w].cred)
                    THEN pc'[w] = "patch_update"
                    ELSE /\ pc'[w] = "done"
                         /\ resp'[w].status = 403
                         /\ comments' = comments
      ]_vars

\* The project's creator was refused the edit of another user's comment.
C3_Witness ==
    \E w \in Workers :
        /\ pc[w] = "done" /\ req[w].method = "PATCH" /\ resp[w].status = 403
        /\ \E c \in StoredComment(req[w].id) :
              /\ c.user_id \notin CallerIds(req[w].cred)
              /\ OwnerIds(c) \cap CallerIds(req[w].cred) # {}
              /\ c.content # loc[w].payload.content

\* The request's target hangs under a project whose sharing_enabled is false.
TargetHidden(project_id, track_id) ==
    \E p \in ParentProjects(project_id, track_id) : p.sharing_enabled = "false"

\* C4: when GET resolves the target of an anonymous request and the project
\* (the track's parent project) has sharing_enabled = false, the response is
\* 404, whatever comments are stored.
C4_HiddenProjectNotFound ==
    [][\A w \in Workers :
          (/\ pc[w] = "get_target" /\ pc'[w] # "get_target"
           /\ req[w].cred \notin PrivyIds
           /\ TargetHidden(req[w].project_id,
                           IF req[w].route = "coop" THEN NULL ELSE req[w].track_id)) =>
              /\ pc'[w] = "done"
              /\ resp'[w].status = 404
      ]_vars

\* An anonymous GET was answered 404 for a hidden project that has comments.
C4_Witness ==
    \E w \in Workers :
        /\ pc[w] = "done" /\ req[w].method = "GET" /\ resp[w].status = 404
        /\ req[w].cred \notin PrivyIds
        /\ TargetHidden(req[w].project_id, req[w].track_id)
        /\ \E c \in comments :
              c.project_id = req[w].project_id /\ c.track_id = req[w].track_id

\* C5: when PATCH or DELETE decides on a comment whose target is hidden and
\* the caller lacks the relationship the operation needs, the response is
\* 404, as for an absent comment.
C5_HiddenTargetAnswers404 ==
    [][\A w \in Workers :
          (/\ pc[w] \in {"patch_load", "del_owner"} /\ pc'[w] # pc[w]
           /\ \E c \in StoredComment(req[w].id) :
                 /\ TargetHidden(c.project_id, c.track_id)
                 /\ IF req[w].method = "PATCH"
                    THEN c.user_id \notin CallerIds(req[w].cred)
                    ELSE ~MayDelete(w, c)) =>
              /\ pc'[w] = "done"
              /\ resp'[w].status = 404
      ]_vars

-----------------------------------------------------------------------------
(* Properties of the crypto-tip route *)

\* The tips that carry payment reference h.
TipsWithReference(h) == {t \in tips : t.stripe_payment_intent_id = h}

\* C7: a Tip row is inserted only by a request whose credential the identity
\* provider accepts; a request without a valid credential creates no Tip row.
C7_TipInsertAuthorized ==
    [][\A t \in tips' \ tips :
          \E w \in Workers :
              /\ pc[w] = "tip_insert"
              /\ req[w].txHash = t.stripe_payment_intent_id
              /\ verifyPrivyToken(req[w].cred).success
      ]_vars

\* C8: when the duplicate check of a tip request finds a recorded Tip with
\* the request's payment reference, the request is answered 409 and neither
\* a Tip row nor a notification is created.
C8_DuplicateHashConflict ==
    [][\A w \in Workers :
          (/\ pc[w] = "tip_check" /\ pc'[w] # "tip_check"
           /\ TipsWithReference(req[w].txHash) # {}) =>
              /\ pc'[w] = "done"
              /\ resp'[w].status = 409
              /\ tips' = tips
              /\ notifications' = notifications
      ]_vars

\* A second submission of a recorded payment reference was answered 409 and
\* the reference still has its single Tip row.
C8_Witness ==
    \E w \in Workers :
        /\ pc[w] = "done" /\ req[w].route = "tip" /\ resp[w].status = 409
        /\ Cardinality(TipsWithReference(req[w].txHash)) = 1
        /\ Cardinality(tips) = 1
        /\ Cardinality(notifications) = 1

\* C9: no two Tip rows carry the same payment reference.
C9_UniquePaymentReference ==
    \A t1 \in tips, t2 \in tips :
        t1.stripe_payment_intent_id = t2.stripe_payment_intent_id => t1 = t2

\* Two submissions of one payment reference both passed the duplicate check;
\* one has inserted its row, the datastore has refused the other's insert.
C9_Witness ==
    \E w1 \in Workers, w2 \in Workers :
        /\ w1 # w2
        /\ req[w1].route = "tip" /\ req[w2].route = "tip"
        /\ req[w1].txHash = req[w2].txHash
        /\ pc[w1] = "tip_notify"
        /\ pc[w2] = "done" /\ resp[w2].status = 500
        /\ Cardinality(TipsWithReference(req[w1].txHash)) = 1

-----------------------------------------------------------------------------
(* Properties of the write operations and of the library route *)

\* The tables the comment, library and profile writes act on.
writeTables == <<comments, user_projects, project_metrics, users>>

\* C6: a comment, library or profile write whose credential is missing or
\* rejected is answered 401 at its identity step and changes no row; rows of
\* these tables change only in a step of a request with an accepted
\* credential (the public metrics route, which takes no credential, and the
\* deletion of a project with its comments are not among these writes).
C6_WritesNeedCredential ==
    [][/\ \A w \in Workers :
            (/\ pc[w] = "auth" /\ pc'[w] # "auth"
             /\ req[w].cred \notin PrivyIds) =>
                /\ pc'[w] = "done"
                /\ resp'[w].status = 401
                /\ tables' = tables
       /\ (writeTables' # writeTables /\ projects' = projects) =>
            \E w \in Workers :
                /\ pc'[w] # pc[w]
                /\ req[w].method \in {"POST", "PATCH", "DELETE"}
                /\ req[w].route # "metrics" => req[w].cred \in PrivyIds
      ]_vars

\* A library removal with a rejected token was answered 401 while the
\* library holds an entry.
C6_Witness ==
    \E w \in Workers :
        /\ pc[w] = "done" /\ resp[w].status = 401
        /\ req[w].route = "library" /\ req[w].method = "DELETE"
        /\ req[w].cred = "bad"
        /\ user_projects # {}

C11_OneEntryPerUserProject ==
    \A e1 \in user_projects, e2 \in user_projects :
        (e1.user_id = e2.user_id /\ e1.project_id = e2.project_id) => e1 = e2

\* Two adds of one user for one project both passed the existence check; one
\* has inserted its row, the datastore has refused the insert of the other.
C11_Witness ==
    \E w1 \in Workers, w2 \in Workers :
        /\ w1 # w2
        /\ req[w1].route = "library" /\ req[w2].route = "library"
        /\ req[w1].method = "POST" /\ req[w2].method = "POST"
        /\ req[w1].cred = req[w2].cred
        /\ pc[w1] = "lib_metric"
        /\ pc[w2] = "done" /\ resp[w2].status = 500
        /\ req[w1].project_id = req[w2].project_id
        /\ Cardinality(LibEntries(loc[w1].user.id, req[w1].project_id)) = 1

-----------------------------------------------------------------------------
(* Properties of the metrics route *)

\* The rows of project p in a metrics table, and the value of counter f of
\* project p (0 when the project has no row).
MetricsRows(rows, p) == {m \in rows : m.project_id = p}
MetricValue(rows, p, f) ==
    IF MetricsRows(rows, p) = {} THEN 0
    ELSE (CHOOSE m \in MetricsRows(rows, p) : TRUE)[f]

\* C12: every increment call, whatever other calls run beside it and whether
\* or not the project has a metrics row, leaves the project with one row in
\* which the named counter is one higher than before (one, when the row is
\* new) and the other two counters are as before, and changes no other
\* project's row; the counters change in no other step.
C12_IncrementExact ==
    [][/\ \A w \in Workers :
            (pc[w] = "met_rpc" /\ pc'[w] # "met_rpc") =>
                LET p == req[w].project_id
                IN  /\ pc'[w] = "met_read"
                    /\ Cardinality(MetricsRows(project_metrics', p)) = 1
                    /\ \A f \in VALID_FIELDS :
                          MetricValue(project_metrics', p, f) =
                              MetricValue(project_metrics, p, f)
                                  + (IF f = req[w].field THEN 1 ELSE 0)
                    /\ \A m \in project_metrics :
                          m.project_id # p => m \in project_metrics'
       /\ project_metrics' # project_metrics =>
            \E w \in Workers : pc[w] = "met_rpc" /\ pc'[w] = "met_read"
      ]_vars

\* Two calls for one counter ran side by side on a project without a
\* metrics row: the counter stands at two and the other counters at zero.
C12_Witness ==
    \E w1 \in Workers, w2 \in Workers :
        /\ w1 # w2
        /\ pc[w1] = "met_read" /\ pc[w2] = "met_read"
        /\ req[w1].project_id = req[w2].project_id
        /\ req[w1].field = "plays" /\ req[w2].field = "plays"
        /\ MetricValue(project_metrics, req[w1].project_id, "plays") = 2
        /\ MetricValue(project_metrics, req[w1].project_id, "shares") = 0
        /\ MetricValue(project_metrics, req[w1].project_id, "adds") = 0

-----------------------------------------------------------------------------
(* Properties of the identity resolution *)

\* C13: no two users rows carry the same external identity.
C13_OneUserPerIdentity ==
    \A u1 \in users, u2 \in users : u1.privy_id = u2.privy_id => u1 = u2

\* Two first requests of one identity both found no users row; the row of
\* the first is stored, the insert of the second was refused.
C13_Witness ==
    \E w1 \in Workers, w2 \in Workers :
        /\ w1 # w2
        /\ req[w1].cred = req[w2].cred
        /\ pc[w1] = "parse" /\ req[w1].route = "coop"
        /\ pc[w2] = "done" /\ req[w2].route = "user" /\ resp[w2].status = 500
        /\ Cardinality({u \in users : u.privy_id = req[w1].cred}) = 1
        /\ Cardinality(users) = 3

\* C14: when the insert of a users row is refused because a row with the
\* request's identity is stored already, the request does not end with an
\* error: it goes on with the stored user.
C14_ConflictRefetches ==
    [][\A w \in Workers :
          (/\ pc[w] \in {"auth_create", "user_insert"} /\ pc'[w] # pc[w]
           /\ \E u \in users : u.privy_id = req[w].cred) =>
              /\ users' = users
              /\ ~(pc'[w] = "done" /\ resp'[w].status >= 400)
      ]_vars

\* C15: a request with an accepted credential whose identity has no users
\* row is not answered 404 at its identity step; it goes on to the creation
\* of the row or on with its handler.
C15_UnknownUserProceeds ==
    [][\A w \in Workers :
          (/\ pc[w] = "auth" /\ pc'[w] # "auth"
           /\ req[w].cred \in PrivyIds
           /\ ~\E u \in users : u.privy_id = req[w].cred) =>
              ~(pc'[w] = "done" /\ resp'[w].status = 404)
      ]_vars

-----------------------------------------------------------------------------
(* Properties of comment creation *)

\* Exactly one of the two targets is given.
OneTarget(project_id, track_id) ==
    (project_id # NULL) # (track_id # NULL)

\* C16: every stored comment has exactly one of project_id and track_id; a
\* create whose body names both targets or neither is answered 400 when its
\* body is read, and no comment is inserted.
C16_ExactlyOneTarget ==
    /\ [](\A c \in comments : OneTarget(c.project_id, c.track_id))
    /\ [][\A w \in Workers :
             (/\ pc[w] = "parse" /\ pc'[w] # "parse"
              /\ req'[w].method = "POST" /\ req'[w].route \in CommentRoutes
              /\ ~OneTarget(req'[w].project_id, req'[w].track_id)) =>
                 /\ pc'[w] = "done"
                 /\ resp'[w].status = 400
                 /\ comments' = comments
         ]_vars

\* A create naming both targets got its 400 and nothing is stored.
C16_Witness ==
    \E w \in Workers :
        /\ comments = {}
        /\ pc[w] = "done" /\ req[w].method = "POST" /\ req[w].route = "api"
        /\ req[w].project_id # NULL /\ req[w].track_id # NULL
        /\ resp[w].status = 400
        /\ resp[w].data = "Provide either project_id or track_id"

\* The timestamp a comment row may carry: a non-negative integer on a track
\* comment, null on a project comment.
TimestampFits(c) ==
    IF c.track_id # NULL
    THEN c.timestamp_seconds # Null /\ c.timestamp_seconds.v >= 0
    ELSE c.timestamp_seconds = Null

\* C17: every stored comment, and every row a create hands to the datastore,
\* has a non-null timestamp_seconds >= 0 when it is a track comment and a
\* null timestamp_seconds when it is a project comment, whatever the request
\* carried.
C17_TimestampByTarget ==
    /\ \A c \in comments : TimestampFits(c)
    /\ \A w \in Workers : pc[w] = "post_insert" => TimestampFits(loc[w].payload)

\* A project comment is stored with a null timestamp although its request
\* carried one.
C17_Witness ==
    \E w \in Workers :
        /\ pc[w] = "done" /\ req[w].method = "POST" /\ resp[w].status = 201
        /\ req[w].project_id = "p1" /\ req[w].timestamp_seconds = Num(1)
        /\ resp[w].data \in comments
        /\ resp[w].data.timestamp_seconds = Null

\* C18: a create of a track comment whose timestamp_seconds is absent, null
\* or negative is answered 400 at the timestamp check, and no comment is
\* inserted.
C18_BadTimestampRejected ==
    [][\A w \in Workers :
          (/\ pc[w] = "post_target" /\ pc'[w] # "post_target"
           /\ req[w].project_id = NULL
           /\ getTrackProject(req[w].track_id) # Null
           /\ getTrackProject(req[w].track_id).sharing_enabled # "false"
           /\ \/ req[w].timestamp_seconds \in {Undefined, Null}
              \/ (req[w].timestamp_seconds.t = "num" /\ req[w].timestamp_seconds.h < 0)) =>
              /\ pc'[w] = "done"
              /\ resp'[w].status = 400
              /\ comments' = comments
      ]_vars

\* C19: the 201 response of a create carries the comment with can_edit and
\* can_delete true and the author's display name; in a list the creator of
\* the project fetches, another user's comment has can_edit false and
\* can_delete true.
C19_CreateResponseAnnotated ==
    \A w \in Workers :
        /\ (/\ pc[w] = "done" /\ req[w].method = "POST"
            /\ req[w].route \in CommentRoutes /\ resp[w].status = 201) =>
               /\ {"can_edit", "can_delete", "author_name"} \subseteq DOMAIN resp[w].data
               /\ resp[w].data.can_edit
               /\ resp[w].data.can_delete
        /\ (/\ pc[w] = "done" /\ req[w].method = "GET" /\ resp[w].status = 200) =>
               \A i \in DOMAIN resp[w].data :
                   LET e == resp[w].data[i]
                   IN  (/\ e.comment.user_id \notin CallerIds(req[w].cred)
                        /\ OwnerIds(e.comment) \cap CallerIds(req[w].cred) # {}) =>
                           ~e.can_edit /\ e.can_delete

-----------------------------------------------------------------------------
(* Properties of the metrics route *)

\* C20: a metrics request whose field is not one of plays, shares and adds
\* is answered 400 when it arrives, one for a project that is not stored is
\* answered 400 or 404 before the increment is called; neither changes a
\* counter or creates a metrics row.
C20_BadMetricsRequestRejected ==
    [][\A w \in Workers :
          /\ (/\ pc[w] = "idle" /\ pc'[w] # "idle"
              /\ req'[w].route = "metrics"
              /\ req'[w].field \notin VALID_FIELDS) =>
                 /\ pc'[w] = "done"
                 /\ resp'[w].status = 400
                 /\ project_metrics' = project_metrics
          /\ (/\ pc[w] = "idle" /\ pc'[w] # "idle"
              /\ req'[w].route = "metrics"
              /\ ProjectById(req'[w].project_id) = Null) =>
                 /\ pc'[w] \in {"done", "met_project"}
                 /\ pc'[w] = "done" => resp'[w].status = 400
                 /\ project_metrics' = project_metrics
          /\ (/\ pc[w] = "met_project" /\ pc'[w] # "met_project"
              /\ ProjectById(req[w].project_id) = Null) =>
                 /\ pc'[w] = "done"
                 /\ resp'[w].status = 404
                 /\ project_metrics' = project_metrics
      ]_vars

\* One request for an unknown field and one for a project that is not stored
\* have their answers, and no metrics row exists.
C20_Witness ==
    \E w1 \in Workers, w2 \in Workers :
        /\ pc[w1] = "done" /\ req[w1].field = "likes" /\ resp[w1].status = 400
        /\ pc[w2] = "done" /\ req[w2].project_id = "pX" /\ resp[w2].status = 404
        /\ project_metrics = {}

-----------------------------------------------------------------------------
(* Properties of the order of the checks *)

\* C21: the checks of a comment request run in the order shape, target
\* visibility, authentication, comment, mutation: a DELETE that ends at its
\* identity step although its id is missing or malformed is answered 400
\* (shape), and one whose comment hangs under a hidden project is answered
\* 404 (visibility), not the error of the identity step.
C21_ShapeAndVisibilityBeforeAuth ==
    [][\A w \in Workers :
          (/\ pc[w] = "auth" /\ pc'[w] = "done"
           /\ req[w].method = "DELETE") =>
              /\ (req[w].id = NULL \/ ~isValidUUID(req[w].id)) =>
                     resp'[w].status = 400
              /\ (\E c \in StoredComment(req[w].id) :
                     TargetHidden(c.project_id, c.track_id)) =>
                     resp'[w].status = 404
      ]_vars

\* C22: a comment request writes at most once, in the step that ends it with
\* a success response: a step of a request that changes a row of users or
\* comments is followed by no further check, so a request that ends with an
\* error has left the datastore as it was.
C22_WriteOnlyAfterAllChecks ==
    [][\A w \in Workers :
          (/\ pc'[w] # pc[w]
           /\ req[w].route \in CommentRoutes
           /\ <<users, comments>>' # <<users, comments>>) =>
              /\ pc'[w] = "done"
              /\ resp'[w].status < 400
      ]_vars

-----------------------------------------------------------------------------
(* Properties of the comment handlers beside the deletion of the project *)

\* C23: a GET that has resolved its project, or a DELETE that has loaded
\* its comment, and then runs a later step after the project was deleted,
\* is answered 404 in that step: it answers neither with a list nor with a
\* permission decision nor with a success.
C23_DeletedProjectNotFound ==
    [][\A w \in Workers :
          /\ (/\ pc[w] \in {"get_list", "get_users"} /\ pc'[w] # pc[w]
              /\ ParentProjects(req[w].project_id, req[w].track_id) = {}) =>
                 /\ pc'[w] = "done"
                 /\ resp'[w].status = 404
          /\ (/\ pc[w] \in {"del_owner", "del_delete"} /\ pc'[w] # pc[w]
              /\ ParentProjects(loc[w].existing.project_id,
                                loc[w].existing.track_id) = {}) =>
                 /\ pc'[w] = "done"
                 /\ resp'[w].status = 404
      ]_vars

-----------------------------------------------------------------------------
(* Properties of the comment content *)

\* C24: a create or update whose content is empty after trimming, or longer
\* than the maximum length, is answered 400 when its body is read and writes
\* nothing.
C24_BadContentRejected ==
    [][\A w \in Workers :
          (/\ pc[w] = "parse" /\ pc'[w] # "parse"
           /\ req'[w].method \in {"POST", "PATCH"}
           /\ req'[w].route \in CommentRoutes
           /\ \/ Falsy(req'[w].content)
              \/ Len(Trim(req'[w].content.v)) = 0
              \/ Len(Trim(req'[w].content.v)) > CommentMaxLength) =>
              /\ pc'[w] = "done"
              /\ resp'[w].status = 400
              /\ comments' = comments
      ]_vars

-----------------------------------------------------------------------------
(* Properties of the profile update *)

\* The columns of a users row that are not on the allow-list of PATCH.
FixedUserColumns == {"id", "privy_id", "email", "stripe_account_id"}

\* C26: every users row keeps its id, its external identity and its other
\* columns off the allow-list in every step; a users row changes only in
\* the update step of a PATCH /api/user, and then it is the row of the
\* caller.
C26_IdentityNeverReassigned ==
    [][/\ \A u \in users :
            \E v \in users' :
                /\ \A c \in FixedUserColumns : v[c] = u[c]
                /\ v # u =>
                      \E w \in Workers :
                          /\ pc[w] = "user_update" /\ pc'[w] = "done"
                          /\ req[w].method = "PATCH" /\ req[w].route = "user"
                          /\ u.id \in CallerIds(req[w].cred)
       /\ Cardinality(users') >= Cardinality(users)
      ]_vars

\* A PATCH whose body named privy_id, and one whose body named the payment
\* account, were answered 200; the rows carry their identities and payment
\* accounts as at the start.
C26_Witness ==
    \E w1 \in Workers, w2 \in Workers :
        /\ pc[w1] = "done" /\ resp[w1].status = 200 /\ req[w1].cred = "d2"
        /\ req[w1].body.privy_id = Str(<<"d", "1">>)
        /\ pc[w2] = "done" /\ resp[w2].status = 200 /\ req[w2].cred = "d2"
        /\ req[w2].body.stripe_account_id = Str(<<"m", "i", "n", "e">>)
        /\ \E u \in users :
              /\ u.id = "u2" /\ u.privy_id = "d2" /\ u.stripe_account_id = Null
              /\ u.bio = Str(<<"h", "i">>)

-----------------------------------------------------------------------------
(* Properties of the library removal and pin *)

\* The library entries of users other than those of set ids.
EntriesOfOthers(entries, ids) == {e \in entries : e.user_id \notin ids}

\* C29: no step of a library request (add, removal or pin) creates, deletes
\* or changes an entry of a user other than the caller.
C29_LibraryTouchesOwnEntryOnly ==
    [][\A w \in Workers :
          (pc'[w] # pc[w] /\ req[w].route = "library") =>
              LET ids == CallerIds(req[w].cred)
              IN  EntriesOfOthers(user_projects', ids) =
                  EntriesOfOthers(user_projects, ids)
      ]_vars

\* User u2 has removed the project from its library while the pinned entry
\* of user u1 for the same project stays.
C29_Witness ==
    \E w \in Workers :
        /\ pc[w] = "done" /\ req[w].route = "library"
        /\ req[w].method = "DELETE" /\ req[w].cred = "d2"
        /\ resp[w].status = 200
        /\ nextId.user_projects = 2
        /\ \A e \in user_projects : e.user_id = "u1" /\ e.pinned
        /\ user_projects # {}

-----------------------------------------------------------------------------
(* Properties of the new-project form *)

\* The orders of the tracks stored for project k.
TracksOf(f, k) == {t[2] : t \in {x \in f.tracks : x[1] = k}}

LocalsAfterAuth(r) ==
    LET o == AuthOutcome(r, NoLoc)
    IN  IF o.next = "parse" THEN o.loc
        ELSE IF o.next = "auth_create" /\ UsersInsertOk(NewUserRow(r.cred, Null))
        THEN [NoLoc EXCEPT !.user = NewUserRow(r.cred, Null)]
        ELSE Null

\* A DELETE of comment id sent with the credential and to the route of
\* request g passes every check of the handler in the current state and
\* reaches its delete.
DeleteWouldSucceed(g, id) ==
    LET r == [NoReq EXCEPT !.method = "DELETE", !.route = g.route,
                           !.cred = g.cred, !.id = id]
        l == LocalsAfterAuth(r)
    IN  /\ l # Null
        /\ DeleteValidate(r, l).next = "del_load"
        /\ DeleteLoadOutcome(r, l).next = "del_owner"
        /\ DeleteOwnerOutcome(r, DeleteLoadOutcome(r, l).loc).next = "del_delete"

\* The same for a PATCH of comment id with a valid content, up to its
\* update.
PatchWouldSucceed(g, id) ==
    LET r == [NoReq EXCEPT !.method = "PATCH", !.route = g.route,
                           !.cred = g.cred, !.id = id,
                           !.content = Str(<<"a">>)]
        l == LocalsAfterAuth(r)
    IN  /\ l # Null
        /\ PatchValidate(r, l).next = "patch_load"
        /\ PatchLoadOutcome(r, PatchValidate(r, l).loc).next = "patch_update"

\* C28: when GET answers an authenticated caller with the annotated list,
\* each entry's can_delete is true exactly when a DELETE of that comment by
\* the same caller through the same route would, in the state the list is
\* answered in, pass every check and delete it, and its can_edit is true
\* exactly when a PATCH with a valid content would reach its update.
C28_FlagsAgreeWithEnforcement ==
    [][\A w \in Workers :
          (/\ pc[w] = "get_users" /\ pc'[w] = "done"
           /\ verifyPrivyToken(req[w].cred).success
           /\ resp'[w].status = 200) =>
              \A i \in DOMAIN resp'[w].data :
                  LET e == resp'[w].data[i]
                  IN  /\ e.can_delete = DeleteWouldSucceed(req[w], e.comment.id)
                      /\ e.can_edit = PatchWouldSucceed(req[w], e.comment.id)
      ]_vars

\* The project's creator has been answered a list with another user's
\* comment: flagged deletable and not editable, and in that state the
\* creator's DELETE would go through and the creator's PATCH would not.
C28_Witness ==
    \E w \in Workers :
        /\ pc[w] = "done" /\ req[w].method = "GET" /\ resp[w].status = 200
        /\ verifyPrivyToken(req[w].cred).success
        /\ \E i \in DOMAIN resp[w].data :
              LET e == resp[w].data[i]
              IN  /\ e.can_delete /\ ~e.can_edit
                  /\ DeleteWouldSucceed(req[w], e.comment.id)
                  /\ ~PatchWouldSucceed(req[w], e.comment.id)

====
